---- MODULE Spec2Model ----
(***************************************************************************)
(* Model of connors-datafetch: the download orchestrator                   *)
(* (DownloadService.download_data), the date resolver                      *)
(* (TimespanCalculator.calculate_dates), the datasource registry, the      *)
(* paginated ccxt adapter (CCXTDataSource.fetch), the request/response     *)
(* adapters and the downloaded files (list and delete).                    *)
(*                                                                         *)
(* Representation.  A Python string that holds a date is the tuple of its  *)
(* numeric fields <<y, m, d>> ("2024-13-01" is <<2024, 13, 1>>); None and  *)
(* the empty string, both falsy, are the empty tuple.  A date object is    *)
(* its proleptic Gregorian ordinal, so strptime and strftime are real      *)
(* conversions.  A ticker is the sequence of its characters.  Optional     *)
(* names (market, timeframe, exchange) are strings, None being "None".     *)
(* An exception is a record [kind, detail].                                *)
(***************************************************************************)
EXTENDS Integers, Sequences, FiniteSets, TLC

VARIABLES
    \* ---- process-wide state
    today,          \* datetime.now(), as a date ordinal
    datasources,    \* registry._datasources: a dict, as its items in insertion order
    \* ---- one download_data call
    pc,             \* position in download_data
    args,           \* the caller's arguments
    start,          \* local variable start (a date string)
    end,            \* local variable end (a date string)
    preview,        \* the dict preview_download returned
    df,             \* what the adapter's fetch returned
    exc,            \* the exception being handled
    result,         \* the DownloadResult returned
    notes,          \* the messages handed to progress_callback, in order
    calls,          \* how often registry, constructor, fetch and save ran
    resolverError,  \* the resolver failure calculate_dates_from_timeframe logged
    \* ---- one CCXTDataSource.fetch call
    cpc,            \* position in fetch
    cargs,          \* fetch's arguments and the exchange's metadata
    since,          \* start in epoch milliseconds
    until,          \* end in epoch milliseconds
    current_since,  \* the pagination cursor
    iteration,      \* the loop counter
    all_ohlcv,      \* the accumulated candles
    requests,       \* the since and limit of every fetch_ohlcv request, in order
    pagesIn,        \* the pages fetch_ohlcv returned, in order
    upstream,       \* the exchange: fresh candles left, the page it repeats
    cresult,        \* what fetch returned or raised
    \* ---- one call of a polygon, finnhub, fmp or yfinance adapter
    acall,          \* the operation called and its arguments
    aresp,          \* what the upstream answered
    areqs,          \* the upstream requests issued, in order
    aout,           \* what the call returned or raised
    \* ---- one operation on the registry
    rcall,          \* the operation, its arguments and its outcome
    \* ---- one call of TimespanCalculator.calculate_dates
    tcall,          \* the arguments
    tout,           \* what it returned or raised
    \* ---- the files of the machine and the operations on downloaded files
    files,          \* the regular files: directory, name, extension, mtime
    clock,          \* the time of the file system
    saved,          \* what download_data wrote to its auto-generated paths
    fcall           \* the last file operation, its argument and its outcome

orchVars == <<pc, args, start, end, preview, df, exc, result, notes, calls,
              resolverError>>
ccxtVars == <<cpc, cargs, since, until, current_since, iteration, all_ohlcv,
              requests, pagesIn, upstream, cresult>>
adapterVars == <<acall, aresp, areqs, aout>>
registryVars == <<rcall>>
resolverVars == <<tcall, tout>>
fileVars == <<files, clock, saved, fcall>>
vars == <<today, datasources, orchVars, ccxtVars, adapterVars, registryVars,
          resolverVars, fileVars>>

None == "None"
NoStr == << >>
Falsy(s) == s = NoStr
NoExc == [kind |-> "none", detail |-> "none"]
Exc(k, d) == [kind |-> k, detail |-> d]

RECURSIVE Rep(_, _)
Rep(c, n) == IF n = 0 THEN << >> ELSE <<c>> \o Rep(c, n - 1)

(***************************************************************************)
(* Calendar: datetime, timedelta, strptime("%Y-%m-%d"), strftime.          *)
(***************************************************************************)
IsLeap(y) == (y % 4 = 0) /\ ((y % 100 # 0) \/ (y % 400 = 0))

DaysInMonth(y, m) ==
    IF m = 2 THEN (IF IsLeap(y) THEN 29 ELSE 28)
    ELSE IF m \in {4, 6, 9, 11} THEN 30 ELSE 31

DaysBeforeYear(y) ==
    365 * (y - 1) + ((y - 1) \div 4) - ((y - 1) \div 100) + ((y - 1) \div 400)

RECURSIVE DaysBeforeMonth(_, _)
DaysBeforeMonth(y, m) ==
    IF m = 1 THEN 0 ELSE DaysBeforeMonth(y, m - 1) + DaysInMonth(y, m - 1)

\* date(y, m, d) exists
IsValidDate(s) ==
    /\ Len(s) = 3
    /\ s[1] >= 1
    /\ s[2] \in 1..12
    /\ s[3] >= 1 /\ s[3] <= DaysInMonth(s[1], s[2])

\* date(y, m, d).toordinal()
ToOrdinal(s) == DaysBeforeYear(s[1]) + DaysBeforeMonth(s[1], s[2]) + s[3]

\* date.fromordinal(n), then strftime("%Y-%m-%d")
strftime(n) ==
    LET y == CHOOSE yy \in ((n \div 366) - 1)..((n \div 365) + 1) :
                 DaysBeforeYear(yy) < n /\ n <= DaysBeforeYear(yy + 1)
        r == n - DaysBeforeYear(y)
        m == CHOOSE mm \in 1..12 :
                 DaysBeforeMonth(y, mm) < r
                 /\ r <= DaysBeforeMonth(y, mm) + DaysInMonth(y, mm)
    IN  <<y, m, r - DaysBeforeMonth(y, m)>>

\* datetime.strptime(s, "%Y-%m-%d"): the date, or a ValueError
strptime_ok(s) == IsValidDate(s)
strptime(s) == ToOrdinal(s)

(***************************************************************************)
(* TimespanCalculator (core/timespan.py).                                  *)
(***************************************************************************)
\* (mutant of PREDEFINED_TIMESPANS: a month has 31 days)
PREDEFINED_TIMESPANS_calendar ==
    [n \in {"1D", "5D", "10D", "1W", "2W", "1M", "3M", "6M", "YTD", "1Y", "2Y",
            "3Y", "5Y"} |->
        CASE n = "1D" -> 1 [] n = "5D" -> 5 [] n = "10D" -> 10
          [] n = "1W" -> 7 [] n = "2W" -> 14
          [] n = "1M" -> 31 [] n = "3M" -> 92 [] n = "6M" -> 183
          [] n = "YTD" -> 0
          [] n = "1Y" -> 365 [] n = "2Y" -> 730 [] n = "3Y" -> 1095
          [] n = "5Y" -> 1825]

\* PREDEFINED_TIMESPANS as day counts (weeks are 7 days); 0 marks "year_to_date"
PREDEFINED_TIMESPANS ==
    [n \in {"1D", "5D", "10D", "1W", "2W", "1M", "3M", "6M", "YTD", "1Y", "2Y",
            "3Y", "5Y"} |->
        CASE n = "1D" -> 1 [] n = "5D" -> 5 [] n = "10D" -> 10
          [] n = "1W" -> 7 [] n = "2W" -> 14
          [] n = "1M" -> 30 [] n = "3M" -> 90 [] n = "6M" -> 180
          [] n = "YTD" -> 0
          [] n = "1Y" -> 365 [] n = "2Y" -> 730 [] n = "3Y" -> 1095
          [] n = "5Y" -> 1825]

Dates(s, e) == [ok |-> TRUE, start |-> s, end |-> e, err |-> NoExc]
DatesError(x) == [ok |-> FALSE, start |-> NoStr, end |-> NoStr, err |-> x]

\* (mutant of BadFormat: no date string is rejected)
BadFormat_never(date_str) == FALSE

\* _validate_date_format raises for date_str
BadFormat(date_str) == ~strptime_ok(date_str)
InvalidDateFormat(date_str) == DatesError(Exc("InvalidDateFormat", date_str))

\* list(PREDEFINED_TIMESPANS.keys()): the names in the order of the table
get_available_timespans ==
    <<"1D", "5D", "10D", "1W", "2W", "1M", "3M", "6M", "YTD", "1Y", "2Y", "3Y",
      "5Y">>

\* the ValueError of lines 78-81: the name and the available options
InvalidTimespan(timespan) ==
    DatesError(Exc("InvalidTimespan",
                   [value |-> timespan, available |-> get_available_timespans]))

\* calculate_dates(timespan, start_date, end_date, end_date_override or now)
calculate_dates(timespan, start_date, end_date, end_dt) ==
    IF ~Falsy(start_date) /\ ~Falsy(end_date) THEN
        IF BadFormat(start_date) THEN InvalidDateFormat(start_date)
        ELSE IF BadFormat(end_date) THEN InvalidDateFormat(end_date)
        ELSE Dates(start_date, end_date)
    ELSE IF ~Falsy(start_date) THEN
        IF BadFormat(start_date) THEN InvalidDateFormat(start_date)
        ELSE Dates(start_date, strftime(end_dt))
    ELSE IF ~Falsy(end_date) THEN
        IF BadFormat(end_date) THEN InvalidDateFormat(end_date)
        ELSE Dates(strftime(strptime(end_date) - 365), end_date)
    ELSE
        LET ts == IF timespan \in {None, ""} THEN "1Y" ELSE timespan IN
        IF ts \notin DOMAIN PREDEFINED_TIMESPANS THEN InvalidTimespan(ts)
        ELSE IF ts = "YTD" THEN
            Dates(strftime(ToOrdinal(<<strftime(end_dt)[1], 1, 1>>)),
                  strftime(end_dt))
        ELSE Dates(strftime(end_dt - PREDEFINED_TIMESPANS[ts]), strftime(end_dt))

(***************************************************************************)
(* DownloadService helpers (services/download_service.py).                 *)
(***************************************************************************)
\* get_default_dates: one year back, same month and day; the hard-coded pair
\* when that day does not exist (29 February)
get_default_dates(now) ==
    LET e == strftime(now)
        s == <<e[1] - 1, e[2], e[3]>>
    IN  IF IsValidDate(s) THEN Dates(s, e)
        ELSE Dates(<<2024, 1, 1>>, <<2024, 12, 31>>)

\* (mutant of calculate_dates_from_timeframe: the resolver's failure is passed on)
calculate_dates_from_timeframe_nofallback(timeframe, start_date, end_date, now) ==
    calculate_dates(timeframe, start_date, end_date, now)

\* calculate_dates_from_timeframe: the resolver's pair, or on any failure of
\* the resolver the default pair; never raises
calculate_dates_from_timeframe(timeframe, start_date, end_date, now) ==
    LET r == calculate_dates(timeframe, start_date, end_date, now)
    IN  IF r.ok THEN r ELSE get_default_dates(now)

Separators == {".", "-", "/"}
Alnum == {"A", "B", "H", "P", "X", "1"}
IsSep(c) == c \in Separators

\* str.isalnum(): non-empty and every character alphanumeric
isalnum(s) == Len(s) > 0 /\ \A i \in 1..Len(s) : s[i] \in Alnum

\* ticker.replace(".", "").replace("-", "").replace("/", "")
StripSeparators(s) == SelectSeq(s, LAMBDA c : ~IsSep(c))

MaxTickerLen == 20

\* (mutant of TickerTooLong: the length check is off by one)
TickerTooLong_offbyone(ticker) == Len(ticker) > MaxTickerLen + 1

TickerTooLong(ticker) == Len(ticker) > MaxTickerLen

\* validate_ticker: "ok" or the error text
validate_ticker(ticker) ==
    IF Len(ticker) = 0 THEN "Ticker cannot be empty"
    ELSE IF ~isalnum(StripSeparators(ticker)) THEN "Ticker contains invalid characters"
    ELSE IF TickerTooLong(ticker) THEN "Ticker too long (max 20 characters)"
    ELSE "ok"

\* DownloadConfigManager.download_configs: market name -> yf_ticker_suffix
download_configs ==
    [m \in {"brazil", "australia", "america", "canada", "uk", "germany",
            "japan", "hong_kong", "india", "crypto"} |->
        CASE m = "brazil" -> <<".", "S", "A">>
          [] m = "australia" -> <<".", "A", "X">>
          [] m = "america" -> << >>
          [] m = "canada" -> <<".", "T", "O">>
          [] m = "uk" -> <<".", "L">>
          [] m = "germany" -> <<".", "D", "E">>
          [] m = "japan" -> <<".", "T">>
          [] m = "hong_kong" -> <<".", "H", "K">>
          [] m = "india" -> <<".", "N", "S">>
          [] m = "crypto" -> << >>]

\* get_market_config raises ValueError
UnknownMarket(market) == market \notin DOMAIN download_configs

endswith(s, suffix) ==
    Len(suffix) <= Len(s)
    /\ SubSeq(s, Len(s) - Len(suffix) + 1, Len(s)) = suffix

\* get_ticker_with_suffix, for a known market
get_ticker_with_suffix(ticker, market) ==
    LET suffix == download_configs[market]
    IN  IF Len(suffix) > 0 /\ ~endswith(ticker, suffix)
        THEN ticker \o suffix ELSE ticker

\* BaseService._validate_required_params raises: a required value is missing
MissingRequired(datasource, ticker, s, e) ==
    datasource = "" \/ Len(ticker) = 0 \/ Falsy(s) \/ Falsy(e)

PreviewInvalid(e) == [valid |-> FALSE, error |-> e, final_ticker |-> << >>]
PreviewValid(t) == [valid |-> TRUE, error |-> "none", final_ticker |-> t]

\* (mutant of DateRangeError: equal dates pass)
DateRangeError_equalpasses(s, e) ==
    IF ~IsValidDate(s) \/ ~IsValidDate(e) THEN "Invalid date format (use YYYY-MM-DD)"
    ELSE IF ToOrdinal(s) > ToOrdinal(e) THEN "Start date must be before end date"
    ELSE "ok"

\* the date-range check of preview_download: pd.to_datetime, then start >= end
DateRangeError(s, e) ==
    IF ~IsValidDate(s) \/ ~IsValidDate(e) THEN "Invalid date format (use YYYY-MM-DD)"
    ELSE IF ToOrdinal(s) >= ToOrdinal(e) THEN "Start date must be before end date"
    ELSE "ok"

\* preview_download(datasource, ticker, start, end, interval, market, timeframe)
preview_download(datasource, ticker, start0, end0, market, timeframe, now) ==
    LET recalc == timeframe # None \/ Falsy(start0) \/ Falsy(end0)
        dr == calculate_dates_from_timeframe(timeframe, start0, end0, now)
        s == IF recalc THEN dr.start ELSE start0
        e == IF recalc THEN dr.end ELSE end0
    IN  IF MissingRequired(datasource, ticker, s, e)
            THEN PreviewInvalid("Missing required parameters")
        ELSE IF validate_ticker(ticker) # "ok"
            THEN PreviewInvalid(validate_ticker(ticker))
        ELSE IF market # None /\ UnknownMarket(market)
            THEN PreviewInvalid("Invalid market")
        ELSE IF DateRangeError(s, e) # "ok"
            THEN PreviewInvalid(DateRangeError(s, e))
        ELSE PreviewValid(IF market = None THEN ticker
                          ELSE get_ticker_with_suffix(ticker, market))

(***************************************************************************)
(* DataSourceRegistry (core/registry.py).                                  *)
(***************************************************************************)
\* a dict is the sequence of its items [name, cls] in insertion order
\* name in self._datasources
Has(d, name) == \E i \in 1..Len(d) : d[i].name = name

\* self._datasources[name]
Get(d, name) == d[CHOOSE i \in 1..Len(d) : d[i].name = name].cls

\* list(self._datasources.keys())
Keys(d) == [i \in 1..Len(d) |-> d[i].name]

\* (mutant of Put: an item is added also when the name is there already)
Put_append(d, name, cls) == Append(d, [name |-> name, cls |-> cls])

\* self._datasources[name] = cls: a new name goes last, a name already there
\* keeps its place and takes the new class
Put(d, name, cls) ==
    IF Has(d, name)
    THEN [i \in 1..Len(d) |->
            IF d[i].name = name THEN [name |-> name, cls |-> cls] ELSE d[i]]
    ELSE Append(d, [name |-> name, cls |-> cls])

\* the classes registered when the service module is imported, in the order
\* of the imports
RegisteredAtImport ==
    Put(Put(Put(Put(Put(<< >>, "finnhub", "FinnhubDataSource"),
                        "fmp", "FinancialModelingPrepDataSource"),
                    "polygon", "PolygonDataSource"),
                "yfinance", "YfinanceDataSource"),
            "ccxt", "CCXTDataSource")

\* (mutant of NotRegistered: every name is taken to be registered)
NotRegistered_never(name) == FALSE

\* create_datasource raises ValueError: the name is not registered
NotRegistered(name) == ~Has(datasources, name)

\* the not-found error of create_datasource
NotFoundError(name) ==
    Exc("NotFound", [name |-> name, available |-> Keys(datasources)])

\* the constructors that take an exchange keyword
TakesExchange == {"ccxt"}

\* what self._datasources[name](**kwargs) can do: build the adapter or raise
ConstructorOutcomes(name, exchange) ==
    IF exchange # None /\ name \notin TakesExchange THEN {"TypeError"}
    ELSE IF name = "yfinance" THEN {"ok"}
    ELSE {"ok", "ValueError"}

(***************************************************************************)
(* DownloadService.download_data, step by step.                            *)
(***************************************************************************)
NoArgs == [datasource |-> "", ticker |-> << >>, start |-> NoStr, end |-> NoStr,
           interval |-> "", market |-> None, output_format |-> "",
           progress_callback |-> None, timeframe |-> None, exchange |-> None]

NoResult == [returned |-> FALSE]
NoCalls == [create |-> 0, construct |-> 0, fetch |-> 0, save |-> 0]
NoPreview == [valid |-> FALSE, error |-> "none", final_ticker |-> << >>]

\* the caller's inputs
Today1 == ToOrdinal(<<2024, 6, 15>>)
Today2 == ToOrdinal(<<2024, 2, 29>>)
Today3 == ToOrdinal(<<2024, 1, 1>>)
Tickers == {<< >>, <<"B", "H", "P">>, <<"B", ".", "A", "X">>, <<"-">>,
            <<"B", "@">>, Rep("A", MaxTickerLen), Rep("A", MaxTickerLen + 1)}
StartInputs == {NoStr, <<2024, 1, 10>>, <<2024, 13, 1>>}
EndInputs == {NoStr, <<2024, 3, 1>>, <<2024, 1, 10>>, <<2023, 2, 30>>}
CallInputs ==
    [datasource : {"yfinance", "ccxt", "nosuch"},
     ticker : Tickers,
     start : StartInputs,
     end : EndInputs,
     interval : {"1d", "1h"},
     market : {None, "australia", "mars"},
     output_format : {"csv", "JSON", "xml"},
     progress_callback : {None, "quiet", "flaky"},
     timeframe : {None, "YTD", "BOGUS"},
     exchange : {None, "binance"}]

\* output_format.lower() in ["csv", "json"]
FormatSupported(f) == f \in {"csv", "json", "CSV", "JSON"}

\* whether this invocation of progress_callback may raise
CallbackRaises == IF args.progress_callback = "flaky" THEN {FALSE, TRUE} ELSE {FALSE}

\* if progress_callback: progress_callback(msg)
Notified(msg) ==
    IF args.progress_callback = None THEN notes ELSE Append(notes, msg)

\* (mutant of Raise: a failure sends control back to the registry lookup)
Raise_retry(x) == pc' = "create" /\ exc' = x

\* raise inside the try block: control goes to the except clause
Raise(x) == pc' = "handler" /\ exc' = x

InitOrch ==
    /\ pc = "idle"
    /\ args = NoArgs
    /\ start = NoStr
    /\ end = NoStr
    /\ preview = NoPreview
    /\ df = "none"
    /\ exc = NoExc
    /\ result = NoResult
    /\ notes = << >>
    /\ calls = NoCalls
    /\ resolverError = NoExc

\* the caller invokes download_data
Call ==
    /\ pc = "idle"
    /\ \E a \in CallInputs : args' = a /\ start' = a.start /\ end' = a.end
    /\ pc' = "resolve"
    /\ UNCHANGED <<adapterVars, registryVars, resolverVars, fileVars, today, datasources, preview, df, exc, result, notes, calls,
                   resolverError, ccxtVars>>

\* lines 346-351: resolve the dates when a timeframe is given or a date is missing
NeedsResolve == args.timeframe # None \/ Falsy(start) \/ Falsy(end)

ResolveDates ==
    /\ pc = "resolve"
    /\ LET r == calculate_dates(args.timeframe, start, end, today)
           d == calculate_dates_from_timeframe(args.timeframe, start, end, today)
       IN  IF NeedsResolve
           THEN /\ start' = d.start
                /\ end' = d.end
                /\ resolverError' = r.err
           ELSE UNCHANGED <<start, end, resolverError>>
    /\ pc' = "format"
    /\ UNCHANGED <<adapterVars, registryVars, resolverVars, fileVars, today, datasources, args, preview, df, exc, result, notes,
                   calls, ccxtVars>>

\* lines 353-359: the output format, then "Validating parameters..."
ValidateFormat ==
    /\ pc = "format"
    /\ \/ /\ ~FormatSupported(args.output_format)
          /\ Raise(Exc("UnsupportedFormat", args.output_format))
          /\ UNCHANGED notes
       \/ /\ FormatSupported(args.output_format)
          /\ notes' = Notified("Validating parameters...")
          /\ \E r \in CallbackRaises :
                IF r THEN Raise(Exc("Callback", "Validating parameters..."))
                ELSE pc' = "preview" /\ UNCHANGED exc
    /\ UNCHANGED <<adapterVars, registryVars, resolverVars, fileVars, today, datasources, args, start, end, preview, df, result,
                   calls, resolverError, ccxtVars>>

\* lines 362-369: preview_download, then "Creating data source..."
Preview ==
    /\ pc = "preview"
    /\ preview' = preview_download(args.datasource, args.ticker, start, end,
                                   args.market, None, today)
    /\ \/ /\ ~preview'.valid
          /\ Raise(Exc("Preview", preview'.error))
          /\ UNCHANGED notes
       \/ /\ preview'.valid
          /\ notes' = Notified("Creating data source...")
          /\ \E r \in CallbackRaises :
                IF r THEN Raise(Exc("Callback", "Creating data source..."))
                ELSE pc' = "create" /\ UNCHANGED exc
    /\ UNCHANGED <<adapterVars, registryVars, resolverVars, fileVars, today, datasources, args, start, end, df, result, calls,
                   resolverError, ccxtVars>>

\* lines 372-379: registry.create_datasource, then "Fetching data for ..."
CreateDatasource ==
    /\ pc = "create"
    /\ \/ /\ NotRegistered(args.datasource)
          /\ calls' = [calls EXCEPT !.create = @ + 1]
          /\ Raise(NotFoundError(args.datasource))
          /\ UNCHANGED notes
       \/ /\ ~NotRegistered(args.datasource)
          /\ calls' = [calls EXCEPT !.create = @ + 1, !.construct = @ + 1]
          /\ \E o \in ConstructorOutcomes(args.datasource, args.exchange) :
                IF o # "ok"
                THEN Raise(Exc("Constructor", o)) /\ UNCHANGED notes
                ELSE /\ notes' = Notified("Fetching data for ...")
                     /\ \E r \in CallbackRaises :
                           IF r THEN Raise(Exc("Callback", "Fetching data for ..."))
                           ELSE pc' = "fetch" /\ UNCHANGED exc
    /\ UNCHANGED <<adapterVars, registryVars, resolverVars, fileVars, today, datasources, args, start, end, preview, df, result,
                   resolverError, ccxtVars>>

\* (mutant of IsEmptySeries: the empty check never fires)
IsEmptySeries_never(d) == FALSE

\* df.empty
IsEmptySeries(d) == d = "empty"

\* lines 382-392: the adapter's fetch, the empty check, "Retrieved ... data points..."
Fetch ==
    /\ pc = "fetch"
    /\ calls' = [calls EXCEPT !.fetch = @ + 1]
    /\ \E o \in {"bars", "empty", "raises"} :
          IF o = "raises"
          THEN Raise(Exc("Fetch", "adapter")) /\ UNCHANGED <<df, notes>>
          ELSE /\ df' = o
               /\ IF IsEmptySeries(o)
                  THEN Raise(Exc("NoData", preview.final_ticker)) /\ UNCHANGED notes
                  ELSE /\ notes' = Notified("Retrieved ... data points...")
                       /\ \E r \in CallbackRaises :
                             IF r THEN Raise(Exc("Callback", "Retrieved ... data points..."))
                             ELSE pc' = "save" /\ UNCHANGED exc
    /\ UNCHANGED <<adapterVars, registryVars, resolverVars, fileVars, today, datasources, args, start, end, preview, result,
                   resolverError, ccxtVars>>

\* DownloadResult(...) of lines 448-457
Success ==
    [returned |-> TRUE, ticker |-> args.ticker, datasource |-> args.datasource,
     market |-> args.market, data |-> df, file_path |-> "output_path",
     start_date |-> start, end_date |-> end, interval |-> args.interval,
     success |-> TRUE, error |-> NoExc]

\* DownloadResult(...) of lines 463-474
Failure ==
    [returned |-> TRUE, ticker |-> args.ticker, datasource |-> args.datasource,
     market |-> args.market, data |-> "none", file_path |-> "none",
     start_date |-> start, end_date |-> end, interval |-> args.interval,
     success |-> FALSE, error |-> exc]

\* lines 394-457: the output path, "Saving to ...", the write, "Download completed!"
Save ==
    /\ pc = "save"
    /\ \/ /\ Raise(Exc("Save", "path"))
          /\ UNCHANGED <<notes, calls, result>>
       \/ \E r1 \in CallbackRaises :
            IF r1
            THEN /\ notes' = Notified("Saving to ...")
                 /\ Raise(Exc("Callback", "Saving to ..."))
                 /\ UNCHANGED <<calls, result>>
            ELSE /\ calls' = [calls EXCEPT !.save = @ + 1]
                 /\ \/ /\ notes' = Notified("Saving to ...")
                       /\ Raise(Exc("Save", "write"))
                       /\ UNCHANGED result
                    \/ \E r2 \in CallbackRaises :
                         /\ notes' = IF args.progress_callback = None THEN notes
                                     ELSE notes \o <<"Saving to ...", "Download completed!">>
                         /\ IF r2
                            THEN Raise(Exc("Callback", "Download completed!"))
                                 /\ UNCHANGED result
                            ELSE /\ result' = Success
                                 /\ pc' = "returned"
                                 /\ UNCHANGED exc
    /\ UNCHANGED <<adapterVars, registryVars, resolverVars, fileVars, today, datasources, args, start, end, preview, df,
                   resolverError, ccxtVars>>

\* lines 459-474: the except clause: log, "Error: ...", the failed result
Handler ==
    /\ pc = "handler"
    /\ notes' = Notified("Error: ...")
    /\ \E r \in CallbackRaises :
          IF r THEN /\ pc' = "raised"
                    /\ exc' = Exc("Callback", "Error: ...")
                    /\ UNCHANGED result
          ELSE /\ pc' = "returned"
               /\ result' = Failure
               /\ UNCHANGED exc
    /\ UNCHANGED <<adapterVars, registryVars, resolverVars, fileVars, today, datasources, args, start, end, preview, df, calls,
                   resolverError, ccxtVars>>

(***************************************************************************)
(* CCXTDataSource.fetch (datasources/ccxt.py).  Times are epoch            *)
(* milliseconds counted from an origin; a candle is [ts, id], id standing  *)
(* for its open, high, low, close and volume.                              *)
(***************************************************************************)
MaxTs == 3
MaxCandles == 3
Timestamps == 0..MaxTs

\* INTERVAL_MAP
INTERVAL_MAP ==
    [i \in {"1m", "5m", "15m", "30m", "1h", "2h", "4h", "6h", "12h", "1d", "1w",
            "1M"} |-> i]

\* hasattr(self.exchange, "timeframes") and timeframe not in self.exchange.timeframes
TimeframeRejected(timeframe, timeframes) ==
    timeframes.has /\ timeframe \notin timeframes.keys

\* lines 148-163: the error fetch raises before any request, or "ok"
IntervalError(interval, timeframes) ==
    IF interval \notin DOMAIN INTERVAL_MAP THEN "Interval not supported"
    ELSE IF TimeframeRejected(INTERVAL_MAP[interval], timeframes)
        THEN "Timeframe not supported"
    ELSE "ok"

max_iterations == 1000

\* (mutant of LoopGuard: the iteration cap is not tested)
LoopGuard_nocap(cs, it) == cs < until

\* the condition of the while loop
LoopGuard(cs, it) == cs < until /\ it < max_iterations

\* line 186: limit=1000, the most candles one request asks for
request_limit == 1000

\* lines 182-187: the request self.exchange.fetch_ohlcv(symbol, timeframe,
\* since=current_since, limit=1000)
fetch_ohlcv(cs) == [since |-> cs, limit |-> request_limit]

\* (mutant of NextSince: the cursor is set on the last candle itself)
NextSince_same(ohlcv) == ohlcv[Len(ohlcv)].ts

\* lines 210-211: the cursor after a non-empty page
NextSince(ohlcv) == ohlcv[Len(ohlcv)].ts + 1

\* lines 214-215: stop once the cursor reached the end
ReachedEnd(cs) == cs >= until

\* (mutant of Extend: the page replaces what was accumulated)
Extend_replace(all, ohlcv) == ohlcv

\* line 207: all_ohlcv.extend(ohlcv)
Extend(all, ohlcv) == all \o ohlcv

\* (mutant of HitLimit: the limit test is off by one)
HitLimit_offbyone(it) == it > max_iterations

\* line 220: the safety limit was hit
HitLimit(it) == it >= max_iterations

\* line 253: the rows whose timestamp lies in [start, end]
InRange(c) == c.ts >= since /\ c.ts <= until
FilterRange(rows) == SelectSeq(rows, InRange)

\* Index.is_monotonic_increasing
is_monotonic_increasing(rows) ==
    \A i \in 1..(Len(rows) - 1) : rows[i].ts <= rows[i + 1].ts

\* every ascending order of the rows at the indices S (equal keys in any order)
RECURSIVE SortOrders(_, _)
SortOrders(rows, S) ==
    IF S = {} THEN {<< >>}
    ELSE LET least == {i \in S : \A j \in S : rows[i].ts <= rows[j].ts}
         IN  UNION {{<<rows[i]>> \o r : r \in SortOrders(rows, S \ {i})} : i \in least}

\* line 259: df.sort_index(): a monotonic index is left as it is; otherwise the
\* default quicksort, which does not fix the order of equal timestamps
sort_index(rows) ==
    IF is_monotonic_increasing(rows) THEN {rows}
    ELSE SortOrders(rows, 1..Len(rows))

\* index.duplicated(keep="first") is False at i
FirstOfItsKey(rows, i) == \A k \in 1..(i - 1) : rows[k].ts # rows[i].ts

\* (mutant of drop_duplicates: repeated timestamps are kept)
drop_duplicates_keep(rows) == rows

RECURSIVE Pick(_, _)
Pick(rows, idx) ==
    IF idx = {} THEN << >>
    ELSE LET i == CHOOSE x \in idx : \A y \in idx : x <= y
         IN  <<rows[i]>> \o Pick(rows, idx \ {i})

\* line 262: df[~df.index.duplicated(keep="first")]
drop_duplicates(rows) ==
    LET keys == {rows[i].ts : i \in 1..Len(rows)}
        firsts == {CHOOSE i \in 1..Len(rows) : rows[i].ts = t /\ FirstOfItsKey(rows, i)
                   : t \in keys}
    IN  Pick(rows, firsts)

NoFetchArgs == [symbol |-> "", start |-> 0, end |-> 0, interval |-> "",
                timeframes |-> [has |-> FALSE, keys |-> {}]]
\* what a RuntimeError's text quotes: the client's message, the symbol
NoDetail == [message |-> "none", symbol |-> "none"]
NoFetchResult == [kind |-> "none", error |-> "none", rows |-> << >>,
                  detail |-> NoDetail]
Returned(rows) == [kind |-> "df", error |-> "none", rows |-> rows,
                   detail |-> NoDetail]
Raised(e) == [kind |-> "raised", error |-> e, rows |-> << >>, detail |-> NoDetail]

\* the exchange runs dry after its fresh candles, or repeats one page for ever
NoFailure == [class |-> "none", message |-> "none"]
NoUpstream == [mode |-> "none", fresh |-> 0, tail |-> << >>, count |-> 0,
               failure |-> NoFailure]
Upstreams ==
    {[mode |-> "free", fresh |-> MaxCandles, tail |-> << >>, count |-> 0,
      failure |-> NoFailure]}
    \cup {[mode |-> "stall", fresh |-> 0, tail |-> <<t>>, count |-> 0,
           failure |-> NoFailure] : t \in 0..(MaxTs - 2)}

FetchInputs ==
    {a \in [symbol : {"BTC/USDT", "ETH/USD"},
            start : Timestamps, end : Timestamps, interval : {"1d", "1wk"},
            timeframes : {[has |-> FALSE, keys |-> {}],
                          [has |-> TRUE, keys |-> {"1h"}],
                          [has |-> TRUE, keys |-> {"1h", "1d"}]}] : TRUE}

InitCcxt ==
    /\ cpc = "idle"
    /\ cargs = NoFetchArgs
    /\ since = 0
    /\ until = 0
    /\ current_since = 0
    /\ iteration = 0
    /\ all_ohlcv = << >>
    /\ requests = << >>
    /\ pagesIn = << >>
    /\ upstream = NoUpstream
    /\ cresult = NoFetchResult

\* (mutant of LoopEntered: the loop is entered also when since = until)
LoopEntered_inclusive(s, u) == s <= u

\* line 179 on entry: current_since = since and iteration = 0, so the loop is
\* entered when since < until
LoopEntered(s, u) == s < u

\* lines 147-177: validate the interval, convert the dates, set up the loop
FetchStart ==
    /\ cpc = "idle"
    /\ \E a \in FetchInputs, u \in Upstreams :
          /\ u.mode = "stall" =>
                /\ a.symbol = "BTC/USDT"
                /\ a.start = 0 /\ a.end = MaxTs
                /\ a.interval = "1d" /\ ~a.timeframes.has
          /\ cargs' = a
          /\ upstream' = u
          /\ IF IntervalError(a.interval, a.timeframes) # "ok"
             THEN /\ cresult' = Raised(IntervalError(a.interval, a.timeframes))
                  /\ cpc' = "done"
                  /\ UNCHANGED <<since, until, current_since>>
             ELSE /\ since' = a.start
                  /\ until' = a.end
                  /\ current_since' = a.start
                  /\ cpc' = IF LoopEntered(a.start, a.end) THEN "loop" ELSE "after"
                  /\ UNCHANGED cresult
    /\ UNCHANGED <<adapterVars, registryVars, resolverVars, fileVars, today, datasources, orchVars, iteration, all_ohlcv, requests,
                   pagesIn>>

\* the candles of a page with the timestamps p, numbered in order of arrival
Numbered(p) == [i \in 1..Len(p) |-> [ts |-> p[i], id |-> upstream.count + i]]

\* all sequences over S of length 1..n
RECURSIVE SeqsUpTo(_, _)
SeqsUpTo(S, n) ==
    IF n = 0 THEN {}
    ELSE {<<x>> : x \in S}
         \cup {<<x>> \o q : x \in S, q \in SeqsUpTo(S, n - 1)}

\* what fetch_ohlcv may return: the timestamps of a page
Pages ==
    {<< >>}
    \cup (IF upstream.mode = "free" THEN SeqsUpTo(Timestamps, upstream.fresh)
          ELSE {upstream.tail} \cup {<<t>> : t \in {x \in Timestamps : x + 1 >= until}})

\* how fetch_ohlcv may fail: the class raised and its message
ClientErrors == {"NetworkError", "ExchangeError", "Exception"}
ClientMessages == {"timed out", "bad symbol"}

\* (mutant of ErrorTag: the first two except clauses are swapped)
ErrorTag_swapped(e) ==
    CASE e = "NetworkError" -> "Exchange error"
      [] e = "ExchangeError" -> "Network error"
      [] OTHER -> "Unexpected error"

\* lines 188-200: the RuntimeError raised for a failure of the client
ErrorTag(e) ==
    CASE e = "NetworkError" -> "Network error"
      [] e = "ExchangeError" -> "Exchange error"
      [] OTHER -> "Unexpected error"

\* lines 189-200: what the RuntimeError's text quotes: str(e) always, the
\* symbol in the 'Exchange error' text only
ErrorDetail(tag, message, symbol) ==
    [message |-> message,
     symbol |-> IF tag = "Exchange error" THEN symbol ELSE "none"]

\* lines 179-217: one pass of the loop, the request failing
RequestFails ==
    /\ cpc = "loop"
    /\ upstream.mode = "free"
    /\ requests' = Append(requests, fetch_ohlcv(current_since))
    /\ \E e \in ClientErrors, m \in ClientMessages :
          /\ upstream' = [upstream EXCEPT !.failure = [class |-> e, message |-> m]]
          /\ cresult' = [Raised(ErrorTag(e)) EXCEPT
                            !.detail = ErrorDetail(ErrorTag(e), m, cargs.symbol)]
    /\ cpc' = "done"
    /\ UNCHANGED <<adapterVars, registryVars, resolverVars, fileVars, today, datasources, orchVars, cargs, since, until,
                   current_since, iteration, all_ohlcv, pagesIn>>

\* lines 179-217: one pass of the loop, the request answered with a page
Request ==
    /\ cpc = "loop"
    /\ requests' = Append(requests, fetch_ohlcv(current_since))
    /\ \E p \in Pages :
          LET ohlcv == Numbered(p) IN
          /\ pagesIn' = Append(pagesIn, ohlcv)
          /\ upstream' = [upstream EXCEPT !.count = @ + Len(p),
                                          !.fresh = IF upstream.mode = "free"
                                                    THEN @ - Len(p) ELSE @]
          /\ IF Len(ohlcv) = 0
             THEN /\ cpc' = "after"
                  /\ UNCHANGED <<all_ohlcv, current_since, iteration>>
             ELSE /\ all_ohlcv' = Extend(all_ohlcv, ohlcv)
                  /\ current_since' = NextSince(ohlcv)
                  /\ IF ReachedEnd(NextSince(ohlcv))
                     THEN cpc' = "after" /\ UNCHANGED iteration
                     ELSE /\ iteration' = iteration + 1
                          /\ cpc' = IF LoopGuard(NextSince(ohlcv), iteration + 1)
                                    THEN "loop" ELSE "after"
    /\ UNCHANGED <<adapterVars, registryVars, resolverVars, fileVars, today, datasources, orchVars, cargs, since, until, cresult>>

\* lines 219-264: the limit, the no-data check, filter, sort, de-duplicate
Finish ==
    /\ cpc = "after"
    /\ IF HitLimit(iteration) THEN cresult' = Raised("Exceeded maximum iterations")
       ELSE IF Len(all_ohlcv) = 0 THEN cresult' = Raised("No data found")
       ELSE \E sorted \in sort_index(FilterRange(all_ohlcv)) :
               cresult' = Returned(drop_duplicates(sorted))
    /\ cpc' = "done"
    /\ UNCHANGED <<adapterVars, registryVars, resolverVars, fileVars, today, datasources, orchVars, cargs, since, until,
                   current_since, iteration, all_ohlcv, requests, pagesIn,
                   upstream>>

(***************************************************************************)
(* The request/response adapters: PolygonDataSource, FinnhubDataSource,    *)
(* FinancialModelingPrepDataSource, YfinanceDataSource.  The upstream's    *)
(* answer is a status, the field names of its records in the order they    *)
(* come, and the bars [ts, id] in the order they come.                     *)
(***************************************************************************)
TicksPerDay == 2

\* DatetimeIndex.normalize(): the time of day is dropped
normalize(rows) ==
    [i \in 1..Len(rows) |-> [rows[i] EXCEPT !.ts = @ - (@ % TicksPerDay)]]

\* the column list every adapter assigns or selects
OHLCV == <<"open", "high", "low", "close", "volume">>

Unset == "unset"
EnvVars == {"POLYGON_API_KEY", "FINNHUB_API_KEY", "FMP_API_KEY"}
NoEnv == [v \in EnvVars |-> Unset]

NoAdapterCall == [op |-> "none", adapter |-> "none", interval |-> "none",
                  api_key |-> None, environ |-> NoEnv]
FetchCall(adapter, interval) ==
    [op |-> "fetch", adapter |-> adapter, interval |-> interval,
     api_key |-> None, environ |-> NoEnv]
NoResponse == [status |-> 0, s |-> "none", fields |-> << >>, bars |-> << >>]
NoAdapterOut == [kind |-> "none", error |-> "none", detail |-> "none",
                 columns |-> << >>, rows |-> << >>, api_key |-> None]
ADf(columns, rows) == [NoAdapterOut EXCEPT !.kind = "df", !.columns = columns,
                                            !.rows = rows]
ARaised(error, detail) == [NoAdapterOut EXCEPT !.kind = "raised", !.error = error,
                                                !.detail = detail]

\* df[[...]]: the wanted columns are all there (otherwise a KeyError)
HasFields(fields, wanted) ==
    \A i \in 1..Len(wanted) : \E j \in 1..Len(fields) : fields[j] = wanted[i]

\* str.lower() of a column name
lower(name) ==
    CASE name = "Open" -> "open" [] name = "High" -> "high"
      [] name = "Low" -> "low" [] name = "Close" -> "close"
      [] name = "Volume" -> "volume" [] name = "Adj Close" -> "adj close"
      [] name = "CSV" -> "csv" [] name = "JSON" -> "json"
      [] OTHER -> name

\* what the upstream may answer
AdapterIntervals == {"1d", "1wk", "1mo", "5m"}
MaxBars == 2
\* the bars with the timestamps p, numbered in the order they come
Bars(p) == [i \in 1..Len(p) |-> [ts |-> p[i], id |-> i]]
BarSeqs ==
    {<< >>} \cup {Bars(p) : p \in SeqsUpTo(Timestamps, MaxBars)}
PolygonFields == {<<"v", "vw", "o", "c", "h", "l", "t", "n">>,
                  <<"o", "h", "l", "c", "v", "t">>,
                  <<"o", "h", "l", "c", "t">>}
FinnhubFields == {<<"c", "h", "l", "o", "s", "t", "v">>,
                  <<"c", "h", "l", "o", "s", "t">>}
FmpFields == {<<"date", "open", "high", "low", "close", "adjClose", "volume">>,
              <<"date", "close", "open", "low", "high", "volume">>,
              <<"date", "open", "high", "low", "close">>}
YfinanceFields == {<<"Open", "High", "Low", "Close", "Volume">>,
                   <<"Close", "High", "Low", "Open", "Volume">>,
                   <<"Open", "High", "Low", "Close", "Adj Close", "Volume">>}
Responses(fieldSets) ==
    [status : {200, 500}, s : {"ok", "no_data", "error"}, fields : fieldSets,
     bars : BarSeqs]

\* ---- PolygonDataSource.fetch
polygon_interval_map ==
    [i \in {"1d", "1wk", "1mo"} |->
        CASE i = "1d" -> "day" [] i = "1wk" -> "week" [] i = "1mo" -> "month"]

\* interval_map.get(interval, ("day", 1))
polygon_timespan(interval) ==
    IF interval \in DOMAIN polygon_interval_map THEN polygon_interval_map[interval]
    ELSE "day"

polygon_fetch(interval, r) ==
    IF r.status # 200 THEN ARaised("RuntimeError", "polygon HTTP")
    ELSE IF Len(r.bars) = 0 THEN ARaised("RuntimeError", "polygon returned no results")
    ELSE IF ~HasFields(r.fields, <<"o", "h", "l", "c", "v">>)
        THEN ARaised("KeyError", "not in index")
    ELSE ADf(OHLCV, IF interval = "1d" THEN normalize(r.bars) ELSE r.bars)

PolygonFetch ==
    /\ acall.op = "none"
    /\ \E interval \in AdapterIntervals, r \in Responses(PolygonFields) :
          /\ acall' = FetchCall("polygon", interval)
          /\ aresp' = r
          /\ areqs' = <<polygon_timespan(interval)>>
          /\ aout' = polygon_fetch(interval, r)
    /\ UNCHANGED <<fileVars, today, datasources, orchVars, ccxtVars, registryVars,
                   resolverVars>>

\* ---- FinnhubDataSource.fetch
finnhub_interval_map ==
    [i \in {"1d", "1wk", "1mo"} |->
        CASE i = "1d" -> "D" [] i = "1wk" -> "W" [] i = "1mo" -> "M"]

\* interval_map.get(interval, "D")
finnhub_resolution(interval) ==
    IF interval \in DOMAIN finnhub_interval_map THEN finnhub_interval_map[interval]
    ELSE "D"

finnhub_fetch(interval, r) ==
    IF r.status # 200 THEN ARaised("RuntimeError", "Finnhub HTTP")
    ELSE IF r.s = "no_data" THEN ARaised("RuntimeError", "Finnhub returned no data")
    ELSE IF Len(r.bars) = 0 \/ ~HasFields(r.fields, <<"c">>)
        THEN ARaised("RuntimeError", "Finnhub returned no results")
    ELSE IF ~HasFields(r.fields, <<"o", "h", "l", "c", "v">>)
        THEN ARaised("KeyError", "missing key")
    ELSE ADf(OHLCV, IF interval = "1d" THEN normalize(r.bars) ELSE r.bars)

FinnhubFetch ==
    /\ acall.op = "none"
    /\ \E interval \in AdapterIntervals, r \in Responses(FinnhubFields) :
          /\ acall' = FetchCall("finnhub", interval)
          /\ aresp' = r
          /\ areqs' = <<finnhub_resolution(interval)>>
          /\ aout' = finnhub_fetch(interval, r)
    /\ UNCHANGED <<fileVars, today, datasources, orchVars, ccxtVars, registryVars,
                   resolverVars>>

\* ---- FinancialModelingPrepDataSource.fetch
fmp_interval_map ==
    [i \in {"1wk", "1mo"} |-> CASE i = "1wk" -> "1week" [] i = "1mo" -> "1month"]

\* the interval is neither "1d" nor in ["1wk", "1mo"]: ValueError
fmp_unsupported(interval) == interval # "1d" /\ interval \notin DOMAIN fmp_interval_map

\* the endpoint requested
fmp_endpoint(interval) ==
    IF interval = "1d" THEN "historical-price-full" ELSE fmp_interval_map[interval]

\* df.sort_index()
fmp_sort(rows) == sort_index(rows)

\* what fetch can return or raise once the response is there
fmp_fetch(interval, r) ==
    IF r.status # 200 THEN {ARaised("RuntimeError", "FMP HTTP")}
    ELSE IF Len(r.bars) = 0 THEN {ARaised("RuntimeError", "FMP returned no results")}
    ELSE IF ~HasFields(r.fields, OHLCV) THEN {ARaised("KeyError", "not in index")}
    ELSE {ADf(OHLCV, sorted) : sorted \in fmp_sort(r.bars)}

FmpFetch ==
    /\ acall.op = "none"
    /\ \E interval \in AdapterIntervals, r \in Responses(FmpFields) :
          /\ acall' = FetchCall("fmp", interval)
          /\ IF fmp_unsupported(interval)
             THEN /\ aresp' = NoResponse
                  /\ areqs' = << >>
                  /\ aout' = ARaised("ValueError", "Unsupported interval")
             ELSE /\ aresp' = r
                  /\ areqs' = <<fmp_endpoint(interval)>>
                  /\ aout' \in fmp_fetch(interval, r)
    /\ UNCHANGED <<fileVars, today, datasources, orchVars, ccxtVars, registryVars,
                   resolverVars>>

\* ---- YfinanceDataSource.fetch
\* df.columns.str.lower()
yfinance_columns(fields) == [i \in 1..Len(fields) |-> lower(fields[i])]

\* what yf.download handed over, with the column names in lower case
yfinance_fetch(r) == ADf(yfinance_columns(r.fields), r.bars)

YfinanceFetch ==
    /\ acall.op = "none"
    /\ \E interval \in AdapterIntervals,
          r \in {x \in Responses(YfinanceFields) : x.status = 200 /\ x.s = "ok"} :
          /\ acall' = FetchCall("yfinance", interval)
          /\ aresp' = r
          /\ areqs' = <<interval>>
          /\ aout' = yfinance_fetch(r)
    /\ UNCHANGED <<fileVars, today, datasources, orchVars, ccxtVars, registryVars,
                   resolverVars>>

\* ---- __init__ of PolygonDataSource, FinnhubDataSource and
\* FinancialModelingPrepDataSource
ExplicitKeys == {None, "", "param-key"}
Environments == [EnvVars -> {Unset, "", "env-key"}]

InitCall(adapter, api_key, environ) ==
    [op |-> "init", adapter |-> adapter, interval |-> "none",
     api_key |-> api_key, environ |-> environ]
Instance(api_key) == [NoAdapterOut EXCEPT !.kind = "instance", !.api_key = api_key]

\* os.getenv(var)
getenv(environ, var) == environ[var]

\* (mutant of keyed_init: the environment is asked first)
keyed_init_envfirst(api_key, environ, var) ==
    IF getenv(environ, var) \notin {Unset, ""} THEN Instance(getenv(environ, var))
    ELSE IF api_key = None THEN ARaised("ValueError", var)
    ELSE Instance(api_key)

\* the body the three constructors share: api_key, or when it is None the
\* variable's value, or when that is missing or empty a ValueError naming it
keyed_init(api_key, environ, var) ==
    IF api_key = None
    THEN IF getenv(environ, var) \in {Unset, ""} THEN ARaised("ValueError", var)
         ELSE Instance(getenv(environ, var))
    ELSE Instance(api_key)

PolygonInit ==
    /\ acall.op = "none"
    /\ \E api_key \in ExplicitKeys, environ \in Environments :
          /\ acall' = InitCall("polygon", api_key, environ)
          /\ aout' = keyed_init(api_key, environ, "POLYGON_API_KEY")
    /\ UNCHANGED <<fileVars, today, datasources, orchVars, ccxtVars, registryVars,
                   resolverVars, aresp, areqs>>

FinnhubInit ==
    /\ acall.op = "none"
    /\ \E api_key \in ExplicitKeys, environ \in Environments :
          /\ acall' = InitCall("finnhub", api_key, environ)
          /\ aout' = keyed_init(api_key, environ, "FINNHUB_API_KEY")
    /\ UNCHANGED <<fileVars, today, datasources, orchVars, ccxtVars, registryVars,
                   resolverVars, aresp, areqs>>

FmpInit ==
    /\ acall.op = "none"
    /\ \E api_key \in ExplicitKeys, environ \in Environments :
          /\ acall' = InitCall("fmp", api_key, environ)
          /\ aout' = keyed_init(api_key, environ, "FMP_API_KEY")
    /\ UNCHANGED <<fileVars, today, datasources, orchVars, ccxtVars, registryVars,
                   resolverVars, aresp, areqs>>

InitAdapters ==
    /\ acall = NoAdapterCall
    /\ aresp = NoResponse
    /\ areqs = << >>
    /\ aout = NoAdapterOut

(***************************************************************************)
(* Operations on the registry, one at a time.                              *)
(***************************************************************************)
NoInstance == [cls |-> "none", kwargs |-> {}]
NoRegistryCall ==
    [op |-> "none", name |-> "none", cls |-> "none", kwargs |-> {},
     before |-> << >>, raised |-> "none", available |-> << >>,
     instance |-> NoInstance, returned |-> "none", names |-> << >>]

\* the arguments of the operations
RegistryNames == {"polygon", "custom", "extra"}
RegistryClasses == {"PolygonDataSource", "CustomDataSource"}
KeywordArgs == {{}, {<<"exchange", "binance">>}, {<<"api_key", "param-key">>}}

RegistryCall(op, name, cls, kwargs) ==
    [NoRegistryCall EXCEPT !.op = op, !.name = name, !.cls = cls,
                           !.kwargs = kwargs, !.before = datasources]

\* (mutant of construct: the keyword arguments are not passed on)
construct_nokwargs(cls, kwargs) == [cls |-> cls, kwargs |-> {}]

\* cls(**kwargs)
construct(cls, kwargs) == [cls |-> cls, kwargs |-> kwargs]

InitRegistry == rcall = NoRegistryCall

\* @registry.register_datasource(name) applied to the class cls
RegisterDatasource ==
    /\ \E name \in RegistryNames, cls \in RegistryClasses :
          /\ datasources' = Put(datasources, name, cls)
          /\ rcall' = [RegistryCall("register", name, cls, {}) EXCEPT !.returned = cls]
    /\ UNCHANGED <<fileVars, today, orchVars, ccxtVars, adapterVars, resolverVars>>

\* registry.create_datasource(name, **kwargs); the constructor may raise
RegistryCreate ==
    /\ \E name \in RegistryNames, kwargs \in KeywordArgs :
          IF ~Has(datasources, name)
          THEN rcall' = [RegistryCall("create", name, "none", kwargs) EXCEPT
                            !.raised = "ValueError: Datasource not found",
                            !.available = Keys(datasources)]
          ELSE \E ok \in BOOLEAN :
                  rcall' = [RegistryCall("create", name, "none", kwargs) EXCEPT
                               !.instance = construct(Get(datasources, name), kwargs),
                               !.raised = IF ok THEN "none" ELSE "constructor"]
    /\ UNCHANGED <<fileVars, today, datasources, orchVars, ccxtVars, adapterVars,
                   resolverVars>>

\* registry.get_datasource(name)
RegistryGet ==
    /\ \E name \in RegistryNames :
          IF ~Has(datasources, name)
          THEN rcall' = [RegistryCall("get", name, "none", {}) EXCEPT
                            !.raised = "ValueError: DataSource not found",
                            !.available = Keys(datasources)]
          ELSE rcall' = [RegistryCall("get", name, "none", {}) EXCEPT
                            !.returned = Get(datasources, name)]
    /\ UNCHANGED <<fileVars, today, datasources, orchVars, ccxtVars, adapterVars,
                   resolverVars>>

\* registry.list_datasources()
RegistryList ==
    /\ rcall' = [RegistryCall("list", "none", "none", {}) EXCEPT
                    !.names = Keys(datasources)]
    /\ UNCHANGED <<fileVars, today, datasources, orchVars, ccxtVars, adapterVars,
                   resolverVars>>

(***************************************************************************)
(* Calls of TimespanCalculator.calculate_dates.                            *)
(***************************************************************************)
NoOverride == 0
NoResolverCall == [op |-> "none", timespan |-> None, start_date |-> NoStr,
                   end_date |-> NoStr, end_date_override |-> NoOverride]
NoResolverOut == DatesError(NoExc)

\* the arguments: every supported name, None and an unknown name; dates well
\* and ill formed; an override on each day of a window that holds a turn of
\* the year and a 29 February
MaxOverrideDays == 70
FirstOverride == ToOrdinal(<<2023, 12, 25>>)
Overrides == {NoOverride} \cup {FirstOverride + k : k \in 0..MaxOverrideDays}
TimespanInputs == DOMAIN PREDEFINED_TIMESPANS \cup {None, "", "BOGUS"}
StartDateInputs == {NoStr, <<2024, 1, 10>>, <<2023, 3, 1>>, <<2024, 13, 1>>}
EndDateInputs == {NoStr, <<2024, 3, 1>>, <<2024, 2, 29>>, <<2025, 1, 1>>,
                  <<2023, 2, 30>>}

\* (mutant of end_dt_of: the override is ignored)
end_dt_of_now(end_date_override, now) == now

\* end_dt = end_date_override or datetime.now()
end_dt_of(end_date_override, now) ==
    IF end_date_override # NoOverride THEN end_date_override ELSE now

InitResolver == tcall = NoResolverCall /\ tout = NoResolverOut

\* TimespanCalculator.calculate_dates(timespan, start_date, end_date,
\* end_date_override)
CalculateDates ==
    /\ tcall.op = "none"
    /\ \E timespan \in TimespanInputs, start_date \in StartDateInputs,
          end_date \in EndDateInputs, end_date_override \in Overrides :
          /\ tcall' = [op |-> "calculate_dates", timespan |-> timespan,
                       start_date |-> start_date, end_date |-> end_date,
                       end_date_override |-> end_date_override]
          /\ tout' = calculate_dates(timespan, start_date, end_date,
                                     end_dt_of(end_date_override, today))
    /\ UNCHANGED <<fileVars, today, datasources, orchVars, ccxtVars, adapterVars,
                   registryVars>>

\* calculate_dates called again with the pair it returned
ReResolve ==
    /\ tcall.op = "calculate_dates" /\ tout.ok
    /\ \E timespan \in {None, "5D", "BOGUS"},
          end_date_override \in {NoOverride, FirstOverride} :
          /\ tcall' = [op |-> "again", timespan |-> timespan,
                       start_date |-> tout.start, end_date |-> tout.end,
                       end_date_override |-> end_date_override]
          /\ tout' = calculate_dates(timespan, tout.start, tout.end,
                                     end_dt_of(end_date_override, today))
    /\ UNCHANGED <<fileVars, today, datasources, orchVars, ccxtVars, adapterVars,
                   registryVars>>

(***************************************************************************)
(* Downloaded files (services/download_service.py): the auto-generated     *)
(* output path, list_downloaded_files and delete_downloaded_file.  A path  *)
(* is the components of its directory from the root, the fields of its     *)
(* file name that "_" separates, and its extension; a file is a path with  *)
(* its modification time.                                                  *)
(***************************************************************************)
\* self._get_app_home() / "downloads" / "datasets"
downloads_dir == <<"home", "downloads", "datasets">>

PathTo(dir, name, ext) == [dir |-> dir, name |-> name, ext |-> ext]
PathOf(f) == PathTo(f.dir, f.name, f.ext)
FileAt(path, mtime) ==
    [dir |-> path.dir, name |-> path.name, ext |-> path.ext, modified |-> mtime]

\* the text of a sequence of characters
RECURSIVE Text(_)
Text(cs) == IF cs = << >> THEN "" ELSE Head(cs) \o Text(Tail(cs))

\* the text of a date string: YYYY-MM-DD
Pad2(n) == IF n < 10 THEN "0" \o ToString(n) ELSE ToString(n)
DateText(d) == ToString(d[1]) \o "-" \o Pad2(d[2]) \o "-" \o Pad2(d[3])

\* name.split("_"), for the names of markets, exchanges, datasources
split(name) == IF name = "hong_kong" THEN <<"hong", "kong">> ELSE <<name>>

\* ticker.replace("/", "-").replace("\\", "-").replace(":", "-")
safe_ticker(ticker) ==
    [i \in 1..Len(ticker) |->
        IF ticker[i] \in {"/", "\\", ":"} THEN "-" ELSE ticker[i]]

\* _timeframe_to_filename
timeframe_to_filename(timeframe) ==
    CASE timeframe = "1Y" -> "1year" [] timeframe = "6M" -> "6months"
      [] timeframe = "YTD" -> "ytd" [] OTHER -> lower(timeframe)

\* _get_output_path_with_format: the fields of the file name, in order
get_output_path_with_format(ticker, datasource, start_date, end_date, interval, market, output_format, exchange, include_datasource, timeframe) ==
    LET group == IF datasource = "ccxt" /\ exchange # None THEN split(exchange)
                 ELSE IF market # None /\ market # "america" THEN split(market)
                 ELSE << >>
        source == IF include_datasource THEN split(datasource) ELSE << >>
        period_str == IF timeframe # None
                      THEN <<timeframe_to_filename(timeframe)>>
                      ELSE <<DateText(start_date), DateText(end_date)>>
    IN  PathTo(downloads_dir,
               <<Text(safe_ticker(ticker))>> \o group \o source \o period_str
                   \o <<interval>>,
               lower(output_format))

\* lines 497-537: the entry of a file whose name has at least five fields
file_info(f) ==
    LET n == f.name
        k == Len(n)
    IN  [path |-> PathOf(f),
         ticker |-> n[1],
         market |-> IF k >= 6 THEN n[2] ELSE None,
         datasource |-> IF k >= 6 THEN n[3] ELSE n[2],
         start_date |-> n[k - 2], end_date |-> n[k - 1], interval |-> n[k],
         modified |-> f.modified]

\* files_info.sort(key=modified, reverse=True): every order newest first
\* (glob's order decides between equal times)
RECURSIVE NewestFirst(_)
NewestFirst(S) ==
    IF S = {} THEN {<< >>}
    ELSE UNION {{<<x>> \o r : r \in NewestFirst(S \ {x})} :
                    x \in {y \in S : \A z \in S : y.modified >= z.modified}}

NoFilter == [ticker |-> None, datasource |-> None, market |-> None]

\* list_downloaded_files(ticker, datasource, market): what it can return
list_downloaded_files(filter, fs) ==
    LET globbed == {f \in fs : f.dir = downloads_dir /\ f.ext = "csv"}
        parsed == {file_info(f) : f \in {g \in globbed : Len(g.name) >= 5}}
        kept == {i \in parsed :
                    /\ filter.ticker # None => i.ticker = filter.ticker
                    /\ filter.datasource # None => i.datasource = filter.datasource
                    /\ filter.market # None => i.market = filter.market}
    IN  NewestFirst(kept)

\* the directories of the machine
ExistingDirs ==
    {SubSeq(downloads_dir, 1, k) : k \in 0..Len(downloads_dir)} \cup {<<"etc">>}
Nowhere == <<"?">>
Parent(dir) == IF dir = << >> THEN << >> ELSE SubSeq(dir, 1, Len(dir) - 1)

\* the directory the system reaches from cur along the components rest, ".."
\* being the parent; Nowhere when a component on the way is not a directory
RECURSIVE Walk(_, _)
Walk(cur, rest) ==
    IF cur \notin ExistingDirs THEN Nowhere
    ELSE IF rest = << >> THEN cur
    ELSE Walk(IF Head(rest) = ".." THEN Parent(cur) ELSE Append(cur, Head(rest)),
              Tail(rest))

\* the files a path names: Path.exists(), and what Path.unlink() removes
Target(path, fs) ==
    {f \in fs : /\ f.dir = Walk(<< >>, path.dir)
                 /\ f.name = path.name /\ f.ext = path.ext}

\* PurePath.is_relative_to(other): other's components lead path's components,
\* compared as they are written
is_relative_to(path, other) ==
    Len(other) <= Len(path.dir) /\ SubSeq(path.dir, 1, Len(other)) = other

\* delete_downloaded_file(file_path): the value returned and the files left
delete_downloaded_file(path, fs) ==
    IF ~is_relative_to(path, downloads_dir)
    THEN [returned |-> FALSE, files |-> fs]
    ELSE IF Target(path, fs) # {}
    THEN [returned |-> TRUE, files |-> fs \ Target(path, fs)]
    ELSE [returned |-> FALSE, files |-> fs]

\* the files there are before the service is used, and the calls made
MaxSaves == 1
InitialFiles ==
    {FileAt(PathTo(downloads_dir,
                   <<"AAPL", "yfinance", "2024-01-01", "2024-12-31", "1d">>,
                   "csv"), 0),
     FileAt(PathTo(<<"home", "downloads">>, <<"outside">>, "csv"), 0),
     FileAt(PathTo(<<"etc">>, <<"passwd">>, ""), 0)}
DirInputs ==
    {downloads_dir, <<"home", "downloads">>, <<"etc">>,
     downloads_dir \o <<"..">>, downloads_dir \o <<"..", "..", "..", "etc">>,
     downloads_dir \o <<"sub", "..">>}
PathInputs ==
    {PathTo(d, f.name, f.ext) : d \in DirInputs, f \in InitialFiles}
    \cup {s.path : s \in saved}
SaveInputs ==
    [ticker : {<<"B", "H", "P">>, <<"B", "/", "A">>},
     source : {[datasource |-> "yfinance", exchange |-> None],
               [datasource |-> "ccxt", exchange |-> "binance"]},
     market : {None, "hong_kong"},
     output_format : {"csv", "JSON"},
     include_datasource : BOOLEAN,
     timeframe : {None, "1Y"}]
FilterInputs ==
    [ticker : {None, "BHP"}, datasource : {None, "yfinance"},
     market : {None, "hong"}]

NoFileCall == [op |-> "none", path |-> PathTo(<< >>, << >>, ""),
               filter |-> NoFilter, returned |-> FALSE, before |-> {},
               listing |-> << >>]

InitFiles ==
    /\ files = InitialFiles
    /\ clock = 0
    /\ saved = {}
    /\ fcall = NoFileCall

\* download_data, lines 398-423, for a call that reaches the write with no
\* output_file: the auto-generated path, then the file written there
SaveToAutoPath ==
    /\ clock < MaxSaves
    /\ \E a \in SaveInputs :
          LET path == get_output_path_with_format(
                          a.ticker, a.source.datasource, <<2024, 1, 10>>,
                          <<2024, 3, 1>>, "1d", a.market, a.output_format,
                          a.source.exchange, a.include_datasource, a.timeframe)
          IN  /\ files' = (files \ Target(path, files)) \cup {FileAt(path, clock + 1)}
              /\ saved' = saved \cup {[path |-> path,
                                        ticker |-> Text(safe_ticker(a.ticker))]}
              /\ fcall' = [NoFileCall EXCEPT !.op = "save", !.path = path,
                                             !.before = files]
    /\ clock' = clock + 1
    /\ UNCHANGED <<today, datasources, orchVars, ccxtVars, adapterVars,
                   registryVars, resolverVars>>

ListDownloadedFiles ==
    /\ \E filter \in FilterInputs : \E l \in list_downloaded_files(filter, files) :
          fcall' = [NoFileCall EXCEPT !.op = "list", !.filter = filter,
                                     !.before = files, !.listing = l]
    /\ UNCHANGED <<today, datasources, orchVars, ccxtVars, adapterVars,
                   registryVars, resolverVars, files, clock, saved>>

DeleteDownloadedFile ==
    /\ \E path \in PathInputs :
          LET r == delete_downloaded_file(path, files)
          IN  /\ files' = r.files
              /\ fcall' = [NoFileCall EXCEPT !.op = "delete", !.path = path,
                                             !.before = files,
                                             !.returned = r.returned]
    /\ UNCHANGED <<today, datasources, orchVars, ccxtVars, adapterVars,
                   registryVars, resolverVars, clock, saved>>

(***************************************************************************)
(* Specifications.                                                         *)
(***************************************************************************)
Init ==
    /\ today \in {Today1, Today2, Today3}
    /\ datasources = RegisteredAtImport
    /\ InitOrch
    /\ InitCcxt
    /\ InitAdapters
    /\ InitRegistry
    /\ InitResolver
    /\ InitFiles

Next ==
    \/ Call
    \/ ResolveDates
    \/ ValidateFormat
    \/ Preview
    \/ CreateDatasource
    \/ Fetch
    \/ Save
    \/ Handler

Spec == Init /\ [][Next]_vars

NextCcxt ==
    \/ FetchStart
    \/ RequestFails
    \/ Request
    \/ Finish

SpecCcxt == Init /\ [][NextCcxt]_vars

\* one call at a time: a download_data call or a CCXTDataSource.fetch call
NextCalls ==
    \/ cpc = "idle" /\ Next
    \/ pc = "idle" /\ NextCcxt

SpecCalls == Init /\ [][NextCalls]_vars

NextAdapters ==
    \/ PolygonFetch
    \/ FinnhubFetch
    \/ FmpFetch
    \/ YfinanceFetch
    \/ PolygonInit
    \/ FinnhubInit
    \/ FmpInit

SpecAdapters == Init /\ [][NextAdapters]_vars

NextRegistry ==
    \/ RegisterDatasource
    \/ RegistryCreate
    \/ RegistryGet
    \/ RegistryList

SpecRegistry == Init /\ [][NextRegistry]_vars

NextResolver ==
    \/ CalculateDates
    \/ ReResolve

SpecResolver == Init /\ [][NextResolver]_vars

NextFiles ==
    \/ SaveToAutoPath
    \/ ListDownloadedFiles
    \/ DeleteDownloadedFile

SpecFiles == Init /\ [][NextFiles]_vars

(***************************************************************************)
(* Claims about download_data (checked under Spec).                        *)
(***************************************************************************)
Finished == pc \in {"returned", "raised"}
ResolverFailed == resolverError.kind # "none"
Defaults == get_default_dates(today)

\* C1: download_data never raises: whatever fails inside it, and with or
\* without a progress callback, the call ends by returning a DownloadResult
\* (a failed one when something was raised), never by an exception reaching
\* the caller.
C1_NeverRaises ==
    /\ pc # "raised"
    /\ (pc = "returned" /\ exc.kind # "none") => ~result.success

\* C2: every DownloadResult returned is well-formed: success implies data is a
\* non-empty series, file_path is set and error is None; failure implies data
\* is None, file_path is None and error is a message; ticker, datasource,
\* market and interval are the caller's.
C2_ResultShape ==
    result.returned =>
        /\ result.success =>
              /\ result.data \notin {"none", "empty"}
              /\ result.file_path # "none"
              /\ result.error.kind = "none"
        /\ ~result.success =>
              /\ result.data = "none"
              /\ result.file_path = "none"
              /\ result.error.kind # "none"
        /\ result.ticker = args.ticker
        /\ result.datasource = args.datasource
        /\ result.market = args.market
        /\ result.interval = args.interval

\* C2 witness: a successful download of a ticker with a market suffix, and so
\* a result whose ticker is not the ticker that was fetched.
C2_Witness ==
    /\ result.returned /\ result.success
    /\ args.market = "australia"
    /\ preview.final_ticker # args.ticker

\* a call without a progress callback: what fails in it does not fail through
\* the callback
NoCallback == args.progress_callback = None

\* C3 (as stated, for calls without a progress callback): when the date
\* resolver fails, the failure is surfaced as a failed result carrying the
\* resolver's message, and no adapter is constructed and nothing is fetched.
C3_ResolverFailureSurfaced ==
    (NoCallback /\ ResolverFailed) =>
        /\ pc \in {"handler", "returned"}
        /\ exc.kind = resolverError.kind
        /\ calls.create = 0 /\ calls.construct = 0 /\ calls.fetch = 0
        /\ result.returned =>
              ~result.success /\ result.error.kind = resolverError.kind

\* C3 (amended): when the date resolver fails, download_data goes on with the
\* default dates (today one year back to today, or 2024-01-01 to 2024-12-31
\* when that day does not exist): these are the dates it validates, fetches
\* with and returns, and the resolver's message is never the result's error.
C3_ResolverFailureFallsBack ==
    (ResolverFailed /\ pc \notin {"idle", "resolve"}) =>
        /\ start = Defaults.start /\ end = Defaults.end
        /\ result.returned =>
              /\ result.start_date = Defaults.start
              /\ result.end_date = Defaults.end
              /\ result.error.kind \notin {"InvalidTimespan", "InvalidDateFormat"}

\* C3 witness: an unknown timespan name, and a download that succeeded with
\* the default dates.
C3_Witness ==
    /\ resolverError.kind = "InvalidTimespan"
    /\ result.returned /\ result.success
    /\ calls.fetch = 1

\* C4 (as stated, for calls without a progress callback): a call with an
\* unregistered provider name returns a failed result whose error is the
\* registry's not-found message; no adapter is constructed and fetch is never
\* invoked.
C4_UnregisteredIsNotFound ==
    (NoCallback /\ Finished /\ ~Has(datasources, args.datasource)) =>
        /\ pc = "returned"
        /\ ~result.success
        /\ result.error.kind = "NotFound"
        /\ calls.construct = 0 /\ calls.fetch = 0

\* C4 (amended): a call with an unregistered provider name never constructs an
\* adapter, never invokes fetch and never returns success; when the call
\* reaches the registry lookup the exception is the not-found error naming the
\* requested name and the registered names, and that is the error of the
\* result returned; a failure of an earlier step (output format, ticker,
\* market, date range) is reported instead of it.
C4_UnregisteredNeverFetches ==
    (pc # "idle" /\ ~Has(datasources, args.datasource)) =>
        /\ calls.construct = 0 /\ calls.fetch = 0 /\ calls.save = 0
        /\ result.returned => ~result.success
        /\ (calls.create > 0 /\ result.returned) =>
              /\ result.error.kind = "NotFound"
              /\ result.error.detail.name = args.datasource
              /\ result.error.detail.available = Keys(datasources)
        /\ (calls.create = 0 /\ result.returned) =>
              result.error.kind \in {"UnsupportedFormat", "Preview", "Callback"}

\* C4 witness: the lookup of an unregistered name was made and the failed
\* result returned.
C4_Witness ==
    /\ ~Has(datasources, args.datasource)
    /\ calls.create = 1
    /\ result.returned /\ result.error.kind = "NotFound"

AllowedChars == Alnum \cup Separators
OnlyAllowedChars(t) == \A i \in 1..Len(t) : t[i] \in AllowedChars
HasAlnum(t) == \E i \in 1..Len(t) : t[i] \in Alnum
MarketKnown(m) == m = None \/ m \in DOMAIN download_configs

\* the symbol or the market is one the claim says is rejected
C5_Rejected ==
    \/ Len(args.ticker) = 0
    \/ ~OnlyAllowedChars(args.ticker)
    \/ Len(args.ticker) > MaxTickerLen
    \/ ~MarketKnown(args.market)

\* the preview failed on the symbol or on the market
C5_SymbolOrMarketError ==
    preview.error \in {"Missing required parameters", "Ticker cannot be empty",
                       "Ticker contains invalid characters",
                       "Ticker too long (max 20 characters)", "Invalid market"}

\* C5 (as stated, for calls without a progress callback): an empty symbol, a symbol with a character outside
\* alphanumerics and . - /, a symbol longer than 20 characters or an unknown
\* market gives a failed result without create_datasource or fetch being
\* invoked; a symbol of 1 to 20 allowed characters with a known (or no) market
\* passes this validation.
C5_SymbolValidation ==
    NoCallback =>
        /\ (Finished /\ C5_Rejected) =>
              /\ pc = "returned" /\ ~result.success
              /\ calls.create = 0 /\ calls.fetch = 0
        /\ ~C5_Rejected => ~C5_SymbolOrMarketError

\* C5 (amended): such a symbol or market never reaches create_datasource or
\* fetch and never gives a successful result; a symbol of 1 to 20 allowed
\* characters of which at least one is alphanumeric, with a known (or no)
\* market, passes this validation, while a symbol made of separators only is
\* rejected as containing invalid characters.
C5_SymbolValidationAmended ==
    /\ (pc # "idle" /\ (C5_Rejected \/ ~HasAlnum(args.ticker))) =>
          /\ calls.create = 0 /\ calls.construct = 0 /\ calls.fetch = 0
          /\ calls.save = 0
          /\ result.returned => ~result.success
          /\ pc \notin {"create", "fetch", "save"}
    /\ (~C5_Rejected /\ HasAlnum(args.ticker)) => ~C5_SymbolOrMarketError
    /\ (~C5_Rejected /\ ~HasAlnum(args.ticker) /\ preview.error # "none") =>
          preview.error = "Ticker contains invalid characters"
    /\ (pc \in {"create", "fetch", "save"}) =>
          (~C5_Rejected /\ HasAlnum(args.ticker))

\* C5 witness: a symbol of exactly 20 allowed characters passed the validation
\* and was fetched.
C5_Witness ==
    /\ Len(args.ticker) = MaxTickerLen
    /\ calls.fetch = 1
    /\ result.returned /\ result.success

\* C6: when the adapter's fetch returns an empty series, download_data returns
\* a failed result whose error is the 'No data found' message, and the
\* persistence step is never reached.
C6_EmptySeriesFails ==
    (df = "empty") =>
        /\ calls.save = 0 /\ pc # "save"
        /\ Finished =>
              /\ pc = "returned"
              /\ ~result.success
              /\ result.error.kind = "NoData"

\* progress_callback raised and control went to the except clause, or out of
\* the call: a position and an error that the same call without a callback,
\* which raises nowhere of its own, cannot come to
HookDiverted == exc.kind = "Callback"

\* C22: the progress hook never affects control flow: download_data returns
\* the result that the same call without a callback returns, whatever the
\* callback does, raising included: the call always ends by returning, and
\* neither its path nor its result is ever decided by the callback.
C22_HookNeverAffectsResult ==
    /\ ~HookDiverted
    /\ Finished => pc = "returned"

\* the lifecycle messages in their order
Lifecycle ==
    <<"Validating parameters...", "Creating data source...",
      "Fetching data for ...", "Retrieved ... data points...", "Saving to ...",
      "Download completed!">>
ErrorNote == "Error: ..."
EndsWithError == Len(notes) > 0 /\ notes[Len(notes)] = ErrorNote
\* the notifications before the closing "Error: ..."
Progress == IF EndsWithError THEN SubSeq(notes, 1, Len(notes) - 1) ELSE notes
CompletedNotified == \E i \in 1..Len(notes) : notes[i] = "Download completed!"

\* C23: with a progress callback, the notifications of one call are the
\* lifecycle messages in their fixed order from the first on, each at most
\* once, closed on failure by the one "Error: ..." message; "Download
\* completed!" was notified if and only if the call returns success, and a
\* failed call's last notification is "Error: ...".
C23_NotificationOrder ==
    args.progress_callback # None =>
        /\ Progress = SubSeq(Lifecycle, 1, Len(Progress))
        /\ pc = "returned" =>
              /\ CompletedNotified <=> result.success
              /\ ~result.success => EndsWithError

\* the dates were resolved, and start is not strictly before end
Resolved == pc \notin {"idle", "resolve"}
StartNotBeforeEnd ==
    IsValidDate(start) /\ IsValidDate(end) /\ ToOrdinal(start) >= ToOrdinal(end)
PreviewRejected == exc.kind = "Preview"
RangeMessage == "Start date must be before end date"

Exhausted == cresult.kind = "raised" /\ cresult.error = "Exceeded maximum iterations"

\* the k-th page received was non-empty and left the cursor below the end
Stalled(k) ==
    /\ Len(pagesIn[k]) > 0
    /\ pagesIn[k][Len(pagesIn[k])].ts + 1 < cargs.end

\* every candle fetch_ohlcv handed over
Received == UNION {{pagesIn[k][i] : i \in 1..Len(pagesIn[k])} : k \in 1..Len(pagesIn)}
Rows == {cresult.rows[i] : i \in 1..Len(cresult.rows)}

\* C7: a ccxt fetch terminates after at most 1000 fetch_ohlcv requests,
\* whatever the exchange returns: the number of requests never exceeds 1000,
\* and while the loop runs every pass so far was counted and fewer than 1000
\* were made, so that the loop is left after the 1000th at the latest.
C7_AtMost1000Requests ==
    /\ Len(requests) <= max_iterations
    /\ cpc = "loop" => (Len(requests) = iteration /\ iteration < max_iterations)
    /\ cpc \in {"after", "done"} => iteration <= max_iterations

\* C7 witness: a fetch that ended after exactly 1000 requests.
C7_Witness == cpc = "done" /\ Len(requests) = max_iterations

\* C8: fetch fails with 'Exceeded maximum iterations', returning no candle,
\* exactly when 1000 successive pages were all non-empty and each left the
\* cursor below the end; an empty page or a cursor at the end on or before the
\* 1000th request does not raise it.
C8_ExhaustionExactly ==
    cpc = "done" =>
        /\ Exhausted <=>
              /\ Len(pagesIn) = max_iterations
              /\ \A k \in 1..Len(pagesIn) : Stalled(k)
        /\ Exhausted => Len(cresult.rows) = 0

\* C8 witness: the exhaustion error was raised.
C8_Witness == cpc = "done" /\ Exhausted /\ Len(all_ohlcv) >= max_iterations

\* C9: the series returned holds exactly the received candles whose timestamp
\* lies in [start, end], one bar for each distinct timestamp: every in-range
\* timestamp received is there, and every bar is a candle that was received.
C9_ExactlyInRange ==
    cresult.kind = "df" =>
        /\ {r.ts : r \in Rows}
              = {c.ts : c \in {x \in Received : x.ts >= cargs.start /\ x.ts <= cargs.end}}
        /\ Rows \subseteq Received
        /\ Cardinality({r.ts : r \in Rows}) = Len(cresult.rows)

\* C9 witness: two non-empty pages and then an empty one, three candles of
\* which one is out of range, gave a series of two bars.
C9_Witness ==
    /\ cresult.kind = "df"
    /\ Len(pagesIn) = 3 /\ Len(pagesIn[3]) = 0
    /\ Len(cresult.rows) = 2
    /\ Cardinality(Received) = 3
    /\ \E c \in Received : c.ts < cargs.start

\* C10: every series returned is strictly ascending by timestamp, so without
\* repeated timestamps, and every timestamp lies in [start, end].
C10_AscendingInRange ==
    cresult.kind = "df" =>
        /\ \A i \in 1..(Len(cresult.rows) - 1) :
              cresult.rows[i].ts < cresult.rows[i + 1].ts
        /\ \A i \in 1..Len(cresult.rows) :
              cresult.rows[i].ts >= cargs.start /\ cresult.rows[i].ts <= cargs.end

\* C10 witness: pages out of order and with a repeated timestamp gave a series.
C10_Witness ==
    /\ cresult.kind = "df"
    /\ ~is_monotonic_increasing(all_ohlcv)
    /\ Len(cresult.rows) >= 2
    /\ Len(FilterRange(all_ohlcv)) > Len(cresult.rows)

\* C13: a failure of the exchange client is mapped by its class: NetworkError
\* to 'Network error', ExchangeError to 'Exchange error' naming the requested
\* symbol, anything else to 'Unexpected error'; each wraps the client's
\* message; fetch raises at the first failing page: the failing request is
\* its last, and no series, not even a partial one, is returned.
C13_ClientErrorMapping ==
    upstream.failure.class # "none" =>
        /\ cpc = "done"
        /\ cresult.kind = "raised" /\ Len(cresult.rows) = 0
        /\ upstream.failure.class = "NetworkError" => cresult.error = "Network error"
        /\ upstream.failure.class = "ExchangeError" =>
              /\ cresult.error = "Exchange error"
              /\ cresult.detail.symbol = cargs.symbol
        /\ upstream.failure.class \notin {"NetworkError", "ExchangeError"} =>
              cresult.error = "Unexpected error"
        /\ cresult.detail.message = upstream.failure.message
        /\ Len(requests) = Len(pagesIn) + 1

\* C13 witness: the client rejected the second request, after a page of
\* candles had been accumulated.
C13_Witness ==
    /\ upstream.failure.class = "ExchangeError"
    /\ Len(pagesIn) = 1 /\ Len(all_ohlcv) > 0
    /\ cresult.kind = "raised" /\ cresult.detail.symbol = "ETH/USD"

\* the page that answered the k-th request
LastTs(k) == pagesIn[k][Len(pagesIn[k])].ts
\* after the k-th page the loop is left: the page is empty, or its last
\* timestamp + 1 is at or beyond the end
Closing(k) == Len(pagesIn[k]) = 0 \/ LastTs(k) + 1 >= cargs.end

\* C27: the pagination protocol.  The first request has since = start; every
\* later request has since = the last timestamp of the page before it + 1;
\* every request asks for at most 1000 candles; a request follows a page only
\* if that page was not empty and its last timestamp + 1 was below the end,
\* and after an empty page, or one whose last timestamp + 1 is at or beyond
\* the end, the loop is left.
C27_PaginationProtocol ==
    /\ \A k \in 1..Len(requests) :
          /\ requests[k].limit <= 1000
          /\ k = 1 => requests[k].since = cargs.start
          /\ k > 1 => /\ ~Closing(k - 1)
                      /\ requests[k].since = LastTs(k - 1) + 1
    /\ Len(pagesIn) \in {Len(requests), Len(requests) - 1}
    /\ (Len(pagesIn) > 0 /\ Len(pagesIn) = Len(requests) /\ Closing(Len(pagesIn)))
          => cpc \in {"after", "done"}

\* C27 witness: a second request was made one past the last candle of the
\* first page, it was answered with an empty page, and the fetch ended.
C27_Witness ==
    /\ cpc = "done"
    /\ Len(requests) = 2 /\ Len(pagesIn) = 2
    /\ requests[1].since = 0
    /\ Len(pagesIn[1]) = 2 /\ LastTs(1) = 1
    /\ requests[2].since = 2
    /\ Len(pagesIn[2]) = 0

NotBefore == cargs.start >= cargs.end
IntervalAccepted == IntervalError(cargs.interval, cargs.timeframes) = "ok"

\* C29 (as stated): a ccxt fetch whose start is not strictly before its end
\* issues no fetch_ohlcv request and fails with the 'No data found' error;
\* a fetch issues a request only when start < end.
C29_NoRequestNoData ==
    /\ (cpc = "done" /\ NotBefore) =>
          (Len(requests) = 0 /\ cresult = Raised("No data found"))
    /\ Len(requests) > 0 => cargs.start < cargs.end

\* C29 (amended): a ccxt fetch whose start is not strictly before its end
\* issues no fetch_ohlcv request and fails: with the invalid-input error of
\* the interval check when the interval is not supported, which is tested
\* first, and with the 'No data found' error otherwise; a fetch issues a
\* request only when start < end and the interval is supported.
C29_NoRequestFails ==
    /\ (cpc # "idle" /\ NotBefore) =>
          /\ Len(requests) = 0 /\ cpc # "loop"
          /\ cpc = "done" =>
                cresult = Raised(IF IntervalAccepted THEN "No data found"
                                 ELSE IntervalError(cargs.interval, cargs.timeframes))
    /\ Len(requests) > 0 => (cargs.start < cargs.end /\ IntervalAccepted)

\* C29 witness: a fetch with start = end and a supported interval ended with
\* 'No data found' without a request.
C29_Witness ==
    /\ cpc = "done" /\ cargs.start = cargs.end /\ IntervalAccepted
    /\ Len(requests) = 0 /\ cresult = Raised("No data found")

(***************************************************************************)
(* Claims about both kinds of call (checked under SpecCalls).              *)
(***************************************************************************)
\* download_data is handling a failure, or has ended
Failed == exc.kind # "none"
ClientFailed == upstream.failure # NoFailure

\* C24: there is no automatic retry.  In one download_data call
\* create_datasource, the constructor and fetch are each invoked at most
\* once, and once anything has failed none of them is invoked again; in one
\* ccxt fetch the request that failed is the last request, and the fetch ends
\* by raising.
C24_NoRetry ==
    /\ [](calls.create <= 1 /\ calls.construct <= 1 /\ calls.fetch <= 1)
    /\ [][Failed => calls' = calls]_vars
    /\ [](ClientFailed => (cpc = "done" /\ cresult.kind = "raised"))
    /\ [][ClientFailed => requests' = requests]_vars

\* C24 witness: the adapter's fetch raised in its one invocation and
\* download_data returned the failed result without a second attempt.
C24_Witness ==
    /\ pc = "returned" /\ exc.kind = "Fetch"
    /\ calls.create = 1 /\ calls.construct = 1 /\ calls.fetch = 1
    /\ ~result.success

(***************************************************************************)
(* Claims about the registry (checked under SpecRegistry).                 *)
(***************************************************************************)
\* the names registered in the mapping d, and the classes d holds for a name
NamesOf(d) == {d[i].name : i \in 1..Len(d)}
ClassesOf(d, name) == {d[i].cls : i \in {j \in 1..Len(d) : d[j].name = name}}

\* the list l holds exactly the names of d, each once
ListsExactly(l, d) ==
    /\ {l[i] : i \in 1..Len(l)} = NamesOf(d)
    /\ Len(l) = Cardinality(NamesOf(d))

\* C17: create_datasource(name) for a name that is not registered fails with
\* a not-found error listing exactly the registered names and constructs
\* nothing; for a registered name it builds the instance with the constructor
\* registered under that name (the class of the latest registration), called
\* with the given keyword arguments.
C17_RegistryCreate ==
    /\ rcall.op = "register" => ClassesOf(datasources, rcall.name) = {rcall.cls}
    /\ rcall.op = "create" =>
          /\ rcall.name \notin NamesOf(rcall.before) =>
                /\ rcall.raised = "ValueError: Datasource not found"
                /\ ListsExactly(rcall.available, rcall.before)
                /\ rcall.instance = NoInstance
          /\ rcall.name \in NamesOf(rcall.before) =>
                /\ rcall.raised \in {"none", "constructor"}
                /\ ClassesOf(rcall.before, rcall.name) = {rcall.instance.cls}
                /\ rcall.instance.kwargs = rcall.kwargs

\* C17 witness: a name registered a second time, then created with a keyword
\* argument: the instance is of the class registered last.
C17_Witness ==
    /\ rcall.op = "create" /\ rcall.name = "polygon"
    /\ rcall.raised = "none"
    /\ rcall.instance.cls = "CustomDataSource"
    /\ rcall.kwargs = {<<"api_key", "param-key">>}

\* C18: no operation removes a name: every registered name is registered
\* after every step; create_datasource, get_datasource and list_datasources
\* leave the mapping as it was, also when they fail; list_datasources returns
\* each registered name exactly once.
C18_NoRemoval ==
    /\ [][/\ NamesOf(datasources) \subseteq NamesOf(datasources')
          /\ rcall'.op \in {"create", "get", "list"} => datasources' = datasources]_vars
    /\ [](rcall.op = "list" => ListsExactly(rcall.names, datasources))

\* C18 witness: after the registration of a new name and a second
\* registration of an old one, the list of the six names.
C18_Witness ==
    /\ rcall.op = "list"
    /\ Len(rcall.names) = 6
    /\ ClassesOf(datasources, "polygon") = {"CustomDataSource"}
    /\ "custom" \in NamesOf(datasources)

(***************************************************************************)
(* Claims about the date resolver (checked under SpecResolver).            *)
(***************************************************************************)
\* the day the resolver takes for the end: the override, or today
EndDay == IF tcall.end_date_override # NoOverride THEN tcall.end_date_override
          ELSE today
Given(date_str) == date_str # NoStr
\* the date string s is the day n
IsDay(s, n) == IsValidDate(s) /\ ToOrdinal(s) = n

\* C19: the resolver applies its rules in priority order: start and end both
\* given: both returned verbatim, whatever timespan and override are; only
\* start: (start, today or the override); only end: (end minus 365 days,
\* end), whatever the timespan is; neither: the timespan (1Y when there is
\* none) resolved against the override or today.  Well-formed input of each
\* rule is resolved, and a pair returned resolves to itself.
C19_PriorityRules ==
    tcall.op # "none" =>
        /\ (Given(tcall.start_date) /\ Given(tcall.end_date)) =>
              /\ tout.ok <=> (IsValidDate(tcall.start_date) /\ IsValidDate(tcall.end_date))
              /\ tout.ok => (tout.start = tcall.start_date /\ tout.end = tcall.end_date)
        /\ (Given(tcall.start_date) /\ ~Given(tcall.end_date)) =>
              /\ tout.ok <=> IsValidDate(tcall.start_date)
              /\ tout.ok => (tout.start = tcall.start_date /\ IsDay(tout.end, EndDay))
        /\ (~Given(tcall.start_date) /\ Given(tcall.end_date)) =>
              /\ tout.ok <=> IsValidDate(tcall.end_date)
              /\ tout.ok => /\ tout.end = tcall.end_date
                            /\ IsDay(tout.start, ToOrdinal(tcall.end_date) - 365)
        /\ (~Given(tcall.start_date) /\ ~Given(tcall.end_date)) =>
              /\ tout.ok <=> tcall.timespan \in DOMAIN PREDEFINED_TIMESPANS \cup {None, ""}
              /\ tout.ok => IsDay(tout.end, EndDay)
              /\ tcall.timespan \in {None, ""} => IsDay(tout.start, EndDay - 365)
        /\ tcall.op = "again" =>
              tout.ok /\ tout.start = tcall.start_date /\ tout.end = tcall.end_date

\* C19 witness: a pair resolved from an end date alone, under a timespan and
\* an override that do not count, was resolved again and came back as it was.
C19_Witness ==
    /\ tcall.op = "again" /\ tcall.timespan = "5D"
    /\ tcall.end_date_override # NoOverride
    /\ tout.start = <<2023, 3, 1>> /\ tout.end = <<2024, 2, 29>>

\* the fixed day count of each timespan but YTD
DayCount ==
    [t \in DOMAIN PREDEFINED_TIMESPANS \ {"YTD"} |->
        CASE t = "1D" -> 1 [] t = "5D" -> 5 [] t = "10D" -> 10 [] t = "1W" -> 7
          [] t = "2W" -> 14 [] t = "1M" -> 30 [] t = "3M" -> 90 [] t = "6M" -> 180
          [] t = "1Y" -> 365 [] t = "2Y" -> 730 [] t = "3Y" -> 1095
          [] t = "5Y" -> 1825]

\* C20: for every supported timespan T and every end override E, with no
\* dates given, the resolver returns end = E and start <= end, start being E
\* minus the day count of T, and for YTD the first of January of E's year.
C20_TimespanArithmetic ==
    (/\ tcall.op = "calculate_dates"
     /\ tcall.timespan \in DOMAIN PREDEFINED_TIMESPANS
     /\ tcall.end_date_override # NoOverride
     /\ ~Given(tcall.start_date) /\ ~Given(tcall.end_date)) =>
        /\ tout.ok
        /\ IsDay(tout.end, tcall.end_date_override)
        /\ IsValidDate(tout.start) /\ ToOrdinal(tout.start) <= ToOrdinal(tout.end)
        /\ tcall.timespan # "YTD" =>
              ToOrdinal(tout.start) = tcall.end_date_override - DayCount[tcall.timespan]
        /\ tcall.timespan = "YTD" => tout.start = <<tout.end[1], 1, 1>>

\* C20 witness: one month back from 1 March of a leap year is 31 January.
C20_Witness ==
    /\ tcall.op = "calculate_dates" /\ tcall.timespan = "1M"
    /\ tcall.end_date_override = ToOrdinal(<<2024, 3, 1>>)
    /\ tout.ok /\ tout.start = <<2024, 1, 31>> /\ tout.end = <<2024, 3, 1>>

\* the date strings of the call that strptime rejects
Malformed(date_str) == Given(date_str) /\ ~IsValidDate(date_str)
InvalidInput(kind, detail) == ~tout.ok /\ tout.err = Exc(kind, detail)
NoPairReturned == tout.start = NoStr /\ tout.end = NoStr

\* C21: the resolver called with a timespan name outside the table and no
\* start and end dates fails with an invalid-input error that names the value
\* and lists the thirteen valid timespans; called with a start or end string
\* that is not a valid date it fails with an invalid-input error that names
\* that string (the start when both are malformed); in neither case is a pair
\* of dates returned.
C21_InvalidInputRejected ==
    tcall.op # "none" =>
        /\ (/\ ~Given(tcall.start_date) /\ ~Given(tcall.end_date)
            /\ tcall.timespan \notin {None, ""}
            /\ tcall.timespan \notin {"1D", "5D", "10D", "1W", "2W", "1M", "3M",
                                      "6M", "YTD", "1Y", "2Y", "3Y", "5Y"}) =>
              /\ InvalidInput("InvalidTimespan",
                     [value |-> tcall.timespan,
                      available |-> <<"1D", "5D", "10D", "1W", "2W", "1M", "3M",
                                      "6M", "YTD", "1Y", "2Y", "3Y", "5Y">>])
              /\ NoPairReturned
        /\ Malformed(tcall.start_date) =>
              InvalidInput("InvalidDateFormat", tcall.start_date) /\ NoPairReturned
        /\ (Malformed(tcall.end_date) /\ ~Malformed(tcall.start_date)) =>
              InvalidInput("InvalidDateFormat", tcall.end_date) /\ NoPairReturned

\* C21 witness: a well-formed start with an end on a day that does not exist,
\* under a supported timespan: the call failed naming the end string.
C21_Witness ==
    /\ tcall.op = "calculate_dates" /\ tcall.timespan = "1M"
    /\ tcall.start_date = <<2024, 1, 10>> /\ tcall.end_date = <<2023, 2, 30>>
    /\ ~tout.ok /\ tout.err = Exc("InvalidDateFormat", <<2023, 2, 30>>)
    /\ NoPairReturned

(***************************************************************************)
(* Claims about the adapters (checked under SpecAdapters).                 *)
(***************************************************************************)
\* C11: every adapter's fetch either returns a series with at least one bar
\* or fails with a retrieval error: no adapter returns an empty series when
\* the upstream supplied no usable data.
C11_NeverEmptySeries ==
    aout.kind = "df" => Len(aout.rows) > 0

\* the interval set polygon, finnhub and fmp declare
DeclaredIntervals == {"1d", "1wk", "1mo"}

\* C12: for polygon, finnhub and fmp, fetch called with an interval outside
\* the adapter's supported set (1d, 1wk, 1mo) fails with an invalid-input
\* error and issues no upstream request.
C12_UnsupportedIntervalRejected ==
    (/\ acall.op = "fetch"
     /\ acall.adapter \in {"polygon", "finnhub", "fmp"}
     /\ acall.interval \notin DeclaredIntervals) =>
        /\ aout.kind = "raised" /\ aout.error = "ValueError"
        /\ areqs = << >>

\* C14: every adapter returns, for any well-formed upstream response, a
\* series whose columns are exactly open, high, low, close, volume, in lower
\* case and in that order, whatever the upstream's field names, casing, extra
\* fields and column order.
C14_ExactColumns ==
    aout.kind = "df" =>
        aout.columns = <<"open", "high", "low", "close", "volume">>

\* C15: every series an adapter returns is strictly increasing by timestamp,
\* without repeated timestamps, whatever the order of the upstream's bars and
\* whatever timestamps it repeats.
C15_StrictlyIncreasing ==
    aout.kind = "df" =>
        \A i \in 1..(Len(aout.rows) - 1) : aout.rows[i].ts < aout.rows[i + 1].ts

\* the environment variable of each keyed adapter
ProviderVar ==
    [a \in {"polygon", "finnhub", "fmp"} |->
        CASE a = "polygon" -> "POLYGON_API_KEY"
          [] a = "finnhub" -> "FINNHUB_API_KEY"
          [] a = "fmp" -> "FMP_API_KEY"]

\* the variable is set to a non-empty value
EnvSupplies(environ, var) == environ[var] \notin {Unset, ""}

\* C16: for polygon, finnhub and fmp: a key passed explicitly (an api_key
\* other than None) is the one used, whatever the environment holds; with no
\* explicit key the provider's environment variable is used; when neither
\* supplies a key, construction fails at once with an invalid-input error
\* naming the missing variable, no instance is produced and no request made.
C16_KeyResolution ==
    acall.op = "init" =>
        LET var == ProviderVar[acall.adapter] IN
        /\ acall.api_key # None =>
              aout.kind = "instance" /\ aout.api_key = acall.api_key
        /\ (acall.api_key = None /\ EnvSupplies(acall.environ, var)) =>
              aout.kind = "instance" /\ aout.api_key = acall.environ[var]
        /\ (acall.api_key = None /\ ~EnvSupplies(acall.environ, var)) =>
              /\ aout.kind = "raised" /\ aout.error = "ValueError"
              /\ aout.detail = var
        /\ areqs = << >>

\* C16 witness: a call without an explicit key failed, naming its own
\* variable, although another provider's variable was set.
C16_Witness ==
    /\ acall.op = "init" /\ acall.adapter = "finnhub"
    /\ acall.api_key = None
    /\ acall.environ["FINNHUB_API_KEY"] = Unset
    /\ acall.environ["POLYGON_API_KEY"] = "env-key"
    /\ aout.kind = "raised" /\ aout.detail = "FINNHUB_API_KEY"

\* C25: the finnhub adapter fails with a retrieval error whenever the status
\* field s of the 200 response is not "ok" or its price arrays are empty, and
\* returns a series only for a response with s = "ok" and arrays that are
\* not empty.
C25_FinnhubStatusChecked ==
    (acall.op = "fetch" /\ acall.adapter = "finnhub" /\ aresp.status = 200) =>
        /\ (aresp.s # "ok" \/ Len(aresp.bars) = 0) =>
              (aout.kind = "raised" /\ aout.error = "RuntimeError")
        /\ aout.kind = "df" => (aresp.s = "ok" /\ Len(aresp.bars) > 0)

(***************************************************************************)
(* Claims about downloaded files (checked under SpecFiles).                *)
(***************************************************************************)
\* the directory a path denotes: its components with every ".." taken as
\* the parent of what precedes it
RECURSIVE Denoted(_, _)
Denoted(cur, rest) ==
    IF rest = << >> THEN cur
    ELSE Denoted(IF Head(rest) = ".." THEN Parent(cur) ELSE Append(cur, Head(rest)),
                 Tail(rest))
InsideDownloads(path) ==
    LET dir == Denoted(<< >>, path.dir)
    IN  Len(dir) >= Len(downloads_dir)
        /\ SubSeq(dir, 1, Len(downloads_dir)) = downloads_dir
FilesOutside(fs) == {f \in fs : ~InsideDownloads(PathOf(f))}

\* C26: delete_downloaded_file never deletes a file outside the
\* downloads/datasets directory: for a path that denotes a location outside
\* it, ".." components included, it returns False and leaves the files as
\* they were; it returns True only after removing an existing file inside
\* that directory.
C26_DeleteStaysInside ==
    fcall.op = "delete" =>
        /\ FilesOutside(files) = FilesOutside(fcall.before)
        /\ ~InsideDownloads(fcall.path) =>
              (~fcall.returned /\ files = fcall.before)
        /\ fcall.returned =>
              /\ InsideDownloads(fcall.path)
              /\ \E f \in fcall.before :
                    /\ PathOf(f) = PathTo(Denoted(<< >>, fcall.path.dir),
                                          fcall.path.name, fcall.path.ext)
                    /\ files = fcall.before \ {f}

\* C30: every CSV file that download_data wrote to its auto-generated path,
\* and that is still there, is returned by list_downloaded_files called with
\* no filter, with the ticker field equal to the file-name-safe ticker it was
\* saved under.
C30_SavedIsListed ==
    (fcall.op = "list" /\ fcall.filter = NoFilter) =>
        \A s \in saved :
            (s.path.ext = "csv" /\ Target(s.path, files) # {}) =>
                \E i \in 1..Len(fcall.listing) :
                    /\ fcall.listing[i].path = s.path
                    /\ fcall.listing[i].ticker = s.ticker
====
